---- MODULE Spec2Model ----
(***************************************************************************)
(* godata: an in-memory row store (Frame) ordered by a pluggable key       *)
(* (Index) that an Indexer derives from each row.                          *)
(*                                                                         *)
(* The backing tree (github.com/google/btree, degree 2) is modelled by its *)
(* item sequence in ascending order; items.find is the library's binary    *)
(* search (sort.Search) followed by the equality probe on the left         *)
(* neighbour, so the comparisons made, and with them the calls of Less     *)
(* that end the process, are those of a single-node tree (up to three      *)
(* items; beyond that the contents agree, the probe order may differ).     *)
(***************************************************************************)
EXTENDS Integers, Sequences, FiniteSets, TLC

VARIABLES
    columns,   \* ColumnIndexer.columns of the frame's indexer
    types,     \* ColumnIndexer.types: column -> dynamic type
    bt,        \* Frame.bt: the stored Rows [index, data], ascending
    crashed,   \* TRUE once log.Fatal has terminated the process
    last,      \* the last call: [op, ret, err]
    heap,      \* the row.Data maps held by reference, by address
    trees,     \* the btrees of the frames held by reference, by address
    nf,        \* the frame returned by Joined, GroupBy or WithIndexer
    calls,     \* the number of calls made on f and nf since WithIndexer
    dfs        \* the DataFrame views held by reference, by address

vars == <<columns, types, bt, crashed, last, heap, trees, nf, calls, dfs>>

(***************************************************************************)
(* Bounds of the model.                                                    *)
(***************************************************************************)
MaxRows == 3    \* no Put grows a frame beyond this many entries

(***************************************************************************)
(* Values (interface{}): int, string (its bytes), nil.                     *)
(***************************************************************************)
IntV(n) == [kind |-> "int", v |-> n]
StrV(s) == [kind |-> "string", v |-> s]
NilV == [kind |-> "nil", v |-> 0]

\* reflect.TypeOf(val); reflect.TypeOf(nil) is the nil Type
TypeOf(val) == val.kind

\* the strings "a", "ab" and the payload string "x"
StrA == <<97>>
StrAB == <<97, 98>>
StrX == <<120>>

\* Go's string < : byte-wise, a proper prefix is smaller
RECURSIVE StringLess(_, _)
StringLess(s, t) ==
    IF t = <<>> THEN FALSE
    ELSE IF s = <<>> THEN TRUE
    ELSE IF Head(s) < Head(t) THEN TRUE
    ELSE IF Head(t) < Head(s) THEN FALSE
    ELSE StringLess(Tail(s), Tail(t))

(***************************************************************************)
(* row.Index: NullIndex, IntIndex, StringIndex, MultiIndex.                *)
(***************************************************************************)
NullIndex == [kind |-> "null", v |-> 0]
IntIndex(n) == [kind |-> "int", v |-> n]
StringIndex(s) == [kind |-> "string", v |-> s]
NewMultiIndex(indices) == [kind |-> "multi", v |-> indices]
NoIndex == [kind |-> "none", v |-> 0]     \* the nil Index returned with an error

\* the outcome of one call of Less: log.Fatal ended the process, or a bool
Fatal == [fatal |-> TRUE, lt |-> FALSE]
Bool(b) == [fatal |-> FALSE, lt |-> b]

\* With(e, F) is F(e) with e evaluated once
With(e, F(_)) == CHOOSE y \in {F(x) : x \in {e}} : TRUE

RECURSIVE Less(_, _)
RECURSIVE MultiIndexLoop(_, _, _)

\* the loop of MultiIndex.Less over m.indices, from position i (1-based)
MultiIndexLoop(m, mi, i) ==
    IF i > Len(m) THEN Bool(Len(m) < Len(mi))
    ELSE IF i >= Len(mi) + 1 THEN Bool(FALSE)
    ELSE With(Less(m[i], mi[i]), LAMBDA r1 :
            IF r1.fatal THEN Fatal
            ELSE IF r1.lt THEN Bool(TRUE)
            ELSE With(Less(mi[i], m[i]), LAMBDA r2 :
                    IF r2.fatal THEN Fatal
                    ELSE IF r2.lt THEN Bool(FALSE)
                    ELSE MultiIndexLoop(m, mi, i + 1)))

\* NullIndex.Less
NullIndexLess(b) == Bool(TRUE)

\* IntIndex.Less
IntIndexLess(a, b) ==
    IF b.kind = "int" THEN Bool(a.v < b.v) ELSE Fatal

\* StringIndex.Less
StringIndexLess(a, b) ==
    IF b.kind = "string" THEN Bool(StringLess(a.v, b.v)) ELSE Fatal

\* MultiIndex.Less
MultiIndexLess(a, b) ==
    IF b.kind = "multi" THEN MultiIndexLoop(a.v, b.v, 1) ELSE Fatal

\* a.Less(b), dispatched on the dynamic type of a.  A Row argument is
\* compared by its Index (Row.Less, and the "case Row" of every Less).
Less(a, b) ==
    CASE a.kind = "null" -> NullIndexLess(b)
      [] a.kind = "int" -> IntIndexLess(a, b)
      [] a.kind = "string" -> StringIndexLess(a, b)
      [] a.kind = "multi" -> MultiIndexLess(a, b)

\* NewIndex(vals...)
RECURSIVE NewIndexLoop(_, _, _)
NewIndexLoop(vals, i, indices) ==
    IF i > Len(vals) THEN
        [err |-> "nil",
         index |-> IF Len(indices) = 0 THEN NullIndex
                   ELSE IF Len(indices) = 1 THEN indices[1]
                   ELSE NewMultiIndex(indices)]
    ELSE IF vals[i].kind = "int" THEN
        NewIndexLoop(vals, i + 1, Append(indices, IntIndex(vals[i].v)))
    ELSE IF vals[i].kind = "string" THEN
        NewIndexLoop(vals, i + 1, Append(indices, StringIndex(vals[i].v)))
    ELSE [err |-> "unsupported", index |-> NoIndex]

NewIndex(vals) == NewIndexLoop(vals, 1, <<>>)

(***************************************************************************)
(* ColumnIndexer.Index: the key of a row, or an error; ty is the types map *)
(* on entry, the result carries the map on return.                         *)
(***************************************************************************)
RECURSIVE IndexLoop(_, _, _, _, _)
IndexLoop(cols, ty, data, i, vals) ==
    IF i > Len(cols) THEN
        With(NewIndex(vals), LAMBDA r :
            [err |-> r.err, index |-> r.index, types |-> ty])
    ELSE IF cols[i] \notin DOMAIN data THEN
        [err |-> "missing", index |-> NoIndex, types |-> ty]
    ELSE IF cols[i] \in DOMAIN ty /\ ty[cols[i]] # TypeOf(data[cols[i]]) THEN
        [err |-> "typedrift", index |-> NoIndex, types |-> ty]
    ELSE
        IndexLoop(cols,
                  IF cols[i] \in DOMAIN ty /\ TypeOf(data[cols[i]]) # "nil"
                  THEN [ty EXCEPT ![cols[i]] = TypeOf(data[cols[i]])]
                  ELSE ty,
                  data, i + 1, Append(vals, data[cols[i]]))

\* Index without the check that the row has the column: a column the row
\* lacks is left out of the key
RECURSIVE IndexLoopSkipping(_, _, _, _, _)
IndexLoopSkipping(cols, ty, data, i, vals) ==
    IF i > Len(cols) THEN
        With(NewIndex(vals), LAMBDA r :
            [err |-> r.err, index |-> r.index, types |-> ty])
    ELSE IF cols[i] \notin DOMAIN data THEN
        IndexLoopSkipping(cols, ty, data, i + 1, vals)
    ELSE IndexLoopSkipping(cols, ty, data, i + 1, Append(vals, data[cols[i]]))

IndexSkippingMissing(cols, ty, data) == IndexLoopSkipping(cols, ty, data, 1, <<>>)

Index(cols, ty, data) == IndexLoop(cols, ty, data, 1, <<>>)

(***************************************************************************)
(* The btree of a Frame.  An item is a Row [index, data]; Row.Less and the *)
(* "case Row" branches compare Rows and Indexes by the Index, so every     *)
(* operation below takes the Index of its argument.                        *)
(***************************************************************************)
Row(index, data) == [index |-> index, data |-> data]

None == <<>>            \* a nil btree.Item / a nil RowData / an unset bound
Some(x) == <<x>>

\* sort.Search(len(s), func(i) { return key.Less(s[i]) }) on [i, j)
RECURSIVE Search(_, _, _, _)
Search(s, key, i, j) ==
    IF i >= j THEN [fatal |-> FALSE, i |-> i]
    ELSE With((i + j) \div 2, LAMBDA h :
         With(Less(key, s[h + 1].index), LAMBDA r :
            IF r.fatal THEN [fatal |-> TRUE, i |-> i]
            ELSE IF ~r.lt THEN Search(s, key, h + 1, j)
            ELSE Search(s, key, i, h)))

\* items.find: the 0-based position of key, or where it would be inserted
find(s, key) ==
    With(Search(s, key, 0, Len(s)), LAMBDA r :
        IF r.fatal THEN [fatal |-> TRUE, index |-> 0, found |-> FALSE]
        ELSE IF r.i > 0 THEN
            With(Less(s[r.i].index, key), LAMBDA l :
                IF l.fatal THEN [fatal |-> TRUE, index |-> 0, found |-> FALSE]
                ELSE IF ~l.lt THEN [fatal |-> FALSE, index |-> r.i - 1, found |-> TRUE]
                ELSE [fatal |-> FALSE, index |-> r.i, found |-> FALSE])
        ELSE [fatal |-> FALSE, index |-> r.i, found |-> FALSE])

\* the insertion that keeps an item found under the key beside the new one
InsertBeside(s, row) ==
    With(find(s, row.index), LAMBDA f :
        IF f.fatal THEN [fatal |-> TRUE, out |-> None, items |-> s]
        ELSE [fatal |-> FALSE,
              out |-> IF f.found THEN Some(s[f.index + 1]) ELSE None,
              items |-> SubSeq(s, 1, f.index) \o <<row>>
                         \o SubSeq(s, f.index + 1, Len(s))])

\* BTree.ReplaceOrInsert(row)
ReplaceOrInsert(s, row) ==
    With(find(s, row.index), LAMBDA f :
        IF f.fatal THEN [fatal |-> TRUE, out |-> None, items |-> s]
        ELSE IF f.found THEN
            [fatal |-> FALSE, out |-> Some(s[f.index + 1]),
             items |-> [s EXCEPT ![f.index + 1] = row]]
        ELSE
            [fatal |-> FALSE, out |-> None,
             items |-> SubSeq(s, 1, f.index) \o <<row>>
                        \o SubSeq(s, f.index + 1, Len(s))])

\* BTree.Get(key)
BTreeGet(s, key) ==
    With(find(s, key), LAMBDA f :
        IF f.fatal THEN [fatal |-> TRUE, out |-> None]
        ELSE IF f.found THEN [fatal |-> FALSE, out |-> Some(s[f.index + 1])]
        ELSE [fatal |-> FALSE, out |-> None])

\* BTree.Delete(key)
Delete(s, key) ==
    With(find(s, key), LAMBDA f :
        IF f.fatal THEN [fatal |-> TRUE, out |-> None, items |-> s]
        ELSE IF f.found THEN
            [fatal |-> FALSE, out |-> Some(s[f.index + 1]),
             items |-> SubSeq(s, 1, f.index) \o SubSeq(s, f.index + 2, Len(s))]
        ELSE [fatal |-> FALSE, out |-> None, items |-> s])

\* the ascending walk from 1-based position i up to the stop key; the
\* iterator of forRange never stops the walk (its action returns no error)
RECURSIVE iterate(_, _, _, _)
iterate(s, i, stop, acc) ==
    IF i > Len(s) THEN [fatal |-> FALSE, rows |-> acc]
    ELSE IF stop # None THEN
        With(Less(s[i].index, stop[1]), LAMBDA r :
            IF r.fatal THEN [fatal |-> TRUE, rows |-> acc]
            ELSE IF ~r.lt THEN [fatal |-> FALSE, rows |-> acc]
            ELSE iterate(s, i + 1, stop, Append(acc, s[i])))
    ELSE iterate(s, i + 1, stop, Append(acc, s[i]))

\* BTree.Ascend / AscendGreaterOrEqual / AscendLessThan / AscendRange:
\* start and stop are None or Some(key); the walk begins at find(start)
Ascend(s, start, stop) ==
    IF s = <<>> THEN [fatal |-> FALSE, rows |-> <<>>]
    ELSE IF start # None THEN
        With(find(s, start[1]), LAMBDA f :
            IF f.fatal THEN [fatal |-> TRUE, rows |-> <<>>]
            ELSE iterate(s, f.index + 1, stop, <<>>))
    ELSE iterate(s, 1, stop, <<>>)

(***************************************************************************)
(* Frame operations as functions of the state they read: the result has    *)
(* the value returned (ret), the error (err, "nil" for none), whether      *)
(* log.Fatal ended the process (fatal), and the frame and the indexer's    *)
(* type map on return.                                                     *)
(***************************************************************************)
Result(fatal, ret, err, items, ty) ==
    [fatal |-> fatal, ret |-> ret, err |-> err, bt |-> items, types |-> ty]

\* the data of a btree item, or nil
DataOf(out) == IF out = None THEN None ELSE Some(out[1].data)

\* Put without the early return on an indexing error: the row is stored
\* under the empty key and no error is returned
PutIgnoringError(cols, ty, s, data) ==
    LET ix == Index(cols, ty, data)
        key == IF ix.err # "nil" THEN NullIndex ELSE ix.index
        r == ReplaceOrInsert(s, Row(key, data))
    IN  IF r.fatal THEN Result(TRUE, None, "nil", s, ix.types)
        ELSE Result(FALSE, DataOf(r.out), "nil", r.items, ix.types)

\* Frame.Put(data)
Put(cols, ty, s, data) ==
    With(Index(cols, ty, data), LAMBDA ix :
        IF ix.err # "nil" THEN Result(FALSE, None, ix.err, s, ix.types)
        ELSE With(ReplaceOrInsert(s, Row(ix.index, data)), LAMBDA r :
                IF r.fatal THEN Result(TRUE, None, "nil", s, ix.types)
                ELSE Result(FALSE, DataOf(r.out), "nil", r.items, ix.types)))

\* Frame.Get(key)
Get(cols, ty, s, key) ==
    With(Index(cols, ty, key), LAMBDA ix :
        IF ix.err # "nil" THEN Result(FALSE, None, ix.err, s, ix.types)
        ELSE With(BTreeGet(s, ix.index), LAMBDA r :
                IF r.fatal THEN Result(TRUE, None, "nil", s, ix.types)
                ELSE Result(FALSE, DataOf(r.out), "nil", s, ix.types)))

\* Pop without the early return on an indexing error: the first entry is
\* removed and returned
PopFirstOnError(cols, ty, s, key) ==
    With(Index(cols, ty, key), LAMBDA ix :
        IF ix.err # "nil" THEN
            (IF s = <<>> THEN Result(FALSE, None, ix.err, s, ix.types)
             ELSE Result(FALSE, Some(s[1].data), ix.err, Tail(s), ix.types))
        ELSE With(Delete(s, ix.index), LAMBDA r :
                IF r.fatal THEN Result(TRUE, None, "nil", s, ix.types)
                ELSE Result(FALSE, DataOf(r.out), "nil", r.items, ix.types)))

\* Frame.Pop(key)
Pop(cols, ty, s, key) ==
    With(Index(cols, ty, key), LAMBDA ix :
        IF ix.err # "nil" THEN Result(FALSE, None, ix.err, s, ix.types)
        ELSE With(Delete(s, ix.index), LAMBDA r :
                IF r.fatal THEN Result(TRUE, None, "nil", s, ix.types)
                ELSE Result(FALSE, DataOf(r.out), "nil", r.items, ix.types)))

\* the walk of forRange once the bounds are indexed
forRangeAscend(s, start, stop, ty) ==
    With(Ascend(s, start, stop), LAMBDA a : Result(a.fatal, a.rows, "nil", s, ty))

\* Frame.forRange(opts, action) for the two actions used (both return the
\* visited row, neither fails): ret is the sequence of visited Rows.
\* opts.greaterOrEqual and opts.lessThan are None or Some(row).
forRange(cols, ty, s, greaterOrEqual, lessThan) ==
    IF lessThan = None /\ greaterOrEqual = None THEN
        forRangeAscend(s, None, None, ty)
    ELSE IF lessThan = None THEN
        With(Index(cols, ty, greaterOrEqual[1]), LAMBDA pivot :
            IF pivot.err # "nil" THEN Result(FALSE, <<>>, pivot.err, s, pivot.types)
            ELSE forRangeAscend(s, Some(pivot.index), None, pivot.types))
    ELSE IF greaterOrEqual = None THEN
        With(Index(cols, ty, lessThan[1]), LAMBDA pivot :
            IF pivot.err # "nil" THEN Result(FALSE, <<>>, pivot.err, s, pivot.types)
            ELSE forRangeAscend(s, None, Some(pivot.index), pivot.types))
    ELSE
        With(Index(cols, ty, greaterOrEqual[1]), LAMBDA begin :
            IF begin.err # "nil" THEN Result(FALSE, <<>>, begin.err, s, begin.types)
            ELSE With(Index(cols, begin.types, lessThan[1]), LAMBDA end :
                    IF end.err # "nil" THEN Result(FALSE, <<>>, end.err, s, end.types)
                    ELSE forRangeAscend(s, Some(begin.index), Some(end.index),
                                        end.types)))

\* the copy loop building the slice back to front
RowsDataReversed(rows) == [i \in 1..Len(rows) |-> rows[Len(rows) + 1 - i].data]

\* the data of each Row of a sequence (the copy loops of GetRange, PopRange)
RowsData(rows) == [i \in 1..Len(rows) |-> rows[i].data]

\* Frame.GetRange(args...)
GetRange(cols, ty, s, greaterOrEqual, lessThan) ==
    With(forRange(cols, ty, s, greaterOrEqual, lessThan), LAMBDA r :
        IF r.fatal \/ r.err # "nil" THEN Result(r.fatal, <<>>, r.err, s, r.types)
        ELSE Result(FALSE, RowsData(r.ret), "nil", s, r.types))

\* the deletion loop of PopRange over the selected rows, from position i
RECURSIVE DeleteAll(_, _, _)
DeleteAll(s, rows, i) ==
    IF i > Len(rows) THEN [fatal |-> FALSE, items |-> s]
    ELSE With(Delete(s, rows[i].index), LAMBDA d :
            IF d.fatal THEN [fatal |-> TRUE, items |-> s]
            ELSE DeleteAll(d.items, rows, i + 1))

\* Frame.PopRange(args...)
PopRange(cols, ty, s, greaterOrEqual, lessThan) ==
    With(forRange(cols, ty, s, greaterOrEqual, lessThan), LAMBDA r :
        IF r.fatal \/ r.err # "nil" THEN Result(r.fatal, <<>>, r.err, s, r.types)
        ELSE With(DeleteAll(s, r.ret, 1), LAMBDA d :
                IF d.fatal THEN Result(TRUE, <<>>, "nil", s, r.types)
                ELSE Result(FALSE, RowsData(r.ret), "nil", d.items, r.types)))

(***************************************************************************)
(* Frames over shared rows.  A row.Data is a Go map, held by reference: h  *)
(* is the heap of maps (address -> columns), and the Rows of a tree carry  *)
(* the address of their map.  A *btree.BTree is held by reference too: t   *)
(* is the heap of trees, and a Frame is its indexer and the address of its *)
(* tree.  A *JoinResult is written inline as the value of its column (it   *)
(* is reachable from that one map only); a group.Group is the sequence of  *)
(* the addresses of its rows.                                              *)
(***************************************************************************)
JoinResult(left, right) == [kind |-> "JoinResult", Left |-> left, Right |-> right]
Group(rows) == [kind |-> "Group", v |-> rows]

\* group.Column
Column == "Group"

\* NewColumnIndexer(columns...): the types map starts empty, and Index never
\* adds a column to it (IndexLoop), so it stays the empty map
NewColumnIndexer(cols) == [kind |-> "column", columns |-> cols, types |-> <<>>]
JoinResultIndexer(indexer) == [kind |-> "join", RowIndexer |-> indexer]
GroupIndexer(indexer) == [kind |-> "group", RowIndexer |-> indexer]

\* an Indexer of the caller's: it rejects a row that has both "i2" and
\* "data", and gives every other row the key its RowIndexer gives it
ExclusiveIndexer(indexer) == [kind |-> "exclusive", RowIndexer |-> indexer]

\* the projection JoinResultIndexer.Index builds from a row
Projection(data) ==
    [key \in DOMAIN data |->
        IF data[key].kind # "JoinResult" THEN data[key]
        ELSE IF data[key].Left # NilV THEN data[key].Left
        ELSE IF data[key].Right # NilV THEN data[key].Right
        ELSE NilV]

RECURSIVE IndexOf(_, _, _)

\* JoinResultIndexer.Index(data)
JoinResultIndex(indexer, h, data) ==
    IndexOf(indexer.RowIndexer, h, Projection(data))

\* group.Indexer.Index(data): the key its RowIndexer gives the first row of
\* the Group in group.Column
GroupIndex(indexer, h, data) ==
    IF Column \notin DOMAIN data THEN [err |-> "missing", index |-> NoIndex]
    ELSE IF data[Column].kind # "Group" \/ data[Column].v = <<>> THEN
        [err |-> "unsupported", index |-> NoIndex]
    ELSE IndexOf(indexer.RowIndexer, h, h[data[Column].v[1]])

\* the caller's Indexer.Index(data)
ExclusiveIndex(indexer, h, data) ==
    IF {"i2", "data"} \subseteq DOMAIN data
    THEN [err |-> "exclusive", index |-> NoIndex]
    ELSE IndexOf(indexer.RowIndexer, h, data)

\* Indexer.Index(data), dispatched on the indexer; the result is [err, index]
IndexOf(indexer, h, data) ==
    CASE indexer.kind = "column" ->
            With(Index(indexer.columns, indexer.types, data), LAMBDA ix :
                [err |-> ix.err, index |-> ix.index])
      [] indexer.kind = "join" -> JoinResultIndex(indexer, h, data)
      [] indexer.kind = "group" -> GroupIndex(indexer, h, data)
      [] indexer.kind = "exclusive" -> ExclusiveIndex(indexer, h, data)

\* the outcome of a call on frames over the heaps: ret is what is returned
Outcome(fatal, ret, err, h, t) ==
    [fatal |-> fatal, ret |-> ret, err |-> err, heap |-> h, trees |-> t]

\* a frame that takes the first tree instead of a new one
FrameOnFirstTree(indexer, t) == [indexer |-> indexer, bt |-> 1]

\* NewFrame(indexer): a frame on a new, empty tree (its address is the next)
NewFrame(indexer, t) == [indexer |-> indexer, bt |-> Len(t) + 1]

\* Put storing a copy of the map it is given
FramePutCopy(fr, h, t, ref) ==
    With(IndexOf(fr.indexer, h, h[ref]), LAMBDA ix :
        IF ix.err # "nil" THEN Outcome(FALSE, None, ix.err, h, t)
        ELSE With(ReplaceOrInsert(t[fr.bt], Row(ix.index, Len(h) + 1)), LAMBDA r :
                IF r.fatal THEN Outcome(TRUE, None, "nil", h, t)
                ELSE Outcome(FALSE, DataOf(r.out), "nil", Append(h, h[ref]),
                             [t EXCEPT ![fr.bt] = r.items])))

\* Frame.Put(data) for the map at address ref
FramePut(fr, h, t, ref) ==
    With(IndexOf(fr.indexer, h, h[ref]), LAMBDA ix :
        IF ix.err # "nil" THEN Outcome(FALSE, None, ix.err, h, t)
        ELSE With(ReplaceOrInsert(t[fr.bt], Row(ix.index, ref)), LAMBDA r :
                IF r.fatal THEN Outcome(TRUE, None, "nil", h, t)
                ELSE Outcome(FALSE, DataOf(r.out), "nil", h,
                             [t EXCEPT ![fr.bt] = r.items])))

\* Frame.Get(key) for a probe given by its columns
FrameGet(fr, h, t, key) ==
    With(IndexOf(fr.indexer, h, key), LAMBDA ix :
        IF ix.err # "nil" THEN Outcome(FALSE, None, ix.err, h, t)
        ELSE With(BTreeGet(t[fr.bt], ix.index), LAMBDA r :
                IF r.fatal THEN Outcome(TRUE, None, "nil", h, t)
                ELSE Outcome(FALSE, DataOf(r.out), "nil", h, t)))

\* Frame.GetRange() without options: the maps of all rows, ascending (no
\* bound is indexed and no key is compared)
FrameGetAll(fr, t) == GetRange(<<>>, <<>>, t[fr.bt], None, None).ret

\* the map at address ref becomes m (a new map when ref is the next address)
Store(h, ref, m) == IF ref > Len(h) THEN Append(h, m) ELSE [h EXCEPT ![ref] = m]

\* Joined without the allocation of projected: the left row itself is used
ProjectedInPlace(h, row) == row

\* Joined: projected := make(map[string]interface{}) in the loop over the
\* left rows: the address of a new map (row is the address of the left row)
MakeProjected(h, row) == Len(h) + 1

\* the map of a left row with its values as they are, not as JoinResults
LeftUnwrapped(row) == row

\* Joined: the map built for a left row (every column a JoinResult{Left})
LeftProjected(row) == [col \in DOMAIN row |-> JoinResult(row[col], NilV)]

\* Joined: projected after the loop over the columns of a right row
RightProjected(projected, row) ==
    [col \in DOMAIN projected \cup DOMAIN row |->
        IF col \notin DOMAIN row THEN projected[col]
        ELSE IF col \in DOMAIN projected
             THEN [projected[col] EXCEPT !.Right = row[col]]
             ELSE JoinResult(NilV, row[col])]

\* Joined: the loop over the left rows, from position i
RECURSIVE JoinedLeft(_, _, _, _, _)
JoinedLeft(fr, all, i, h, t) ==
    IF i > Len(all) THEN Outcome(FALSE, None, "nil", h, t)
    ELSE With(MakeProjected(h, all[i]), LAMBDA ref :
         With(FramePut(fr, Store(h, ref, LeftProjected(h[all[i]])), t, ref),
              LAMBDA p :
                IF p.fatal \/ p.err # "nil"
                THEN Outcome(p.fatal, None, p.err, p.heap, p.trees)
                ELSE JoinedLeft(fr, all, i + 1, p.heap, p.trees)))

\* Joined: the loop over the right rows, from position i.  projected is the
\* map fr holds for the key (changed in place) or a new map; the error of
\* the closing fr.Put is not looked at.
RECURSIVE JoinedRight(_, _, _, _, _)
JoinedRight(fr, all, i, h, t) ==
    IF i > Len(all) THEN Outcome(FALSE, None, "nil", h, t)
    ELSE With(FrameGet(fr, h, t, h[all[i]]), LAMBDA g :
        IF g.fatal \/ g.err # "nil" THEN Outcome(g.fatal, None, g.err, h, t)
        ELSE With(IF g.ret = None THEN Len(h) + 1 ELSE g.ret[1], LAMBDA ref :
             With(IF g.ret = None THEN <<>> ELSE h[ref], LAMBDA projected :
                IF \E col \in DOMAIN h[all[i]] \cap DOMAIN projected :
                        projected[col].kind # "JoinResult"
                THEN Outcome(FALSE, None, "notjoinresult", h, t)
                ELSE With(FramePut(fr,
                                   Store(h, ref, RightProjected(projected, h[all[i]])),
                                   t, ref),
                          LAMBDA p :
                            IF p.fatal THEN Outcome(TRUE, None, "nil", p.heap, p.trees)
                            ELSE JoinedRight(fr, all, i + 1, p.heap, p.trees)))))

\* f.Joined(frame): ret is the new frame, or nil with an error
Joined(f, frame, h, t) ==
    With(NewFrame(JoinResultIndexer(f.indexer), t), LAMBDA fr :
    With(Append(t, <<>>), LAMBDA t0 :
    With(FrameGetAll(f, t0), LAMBDA lefts :
    With(JoinedLeft(fr, lefts, 1, h, t0), LAMBDA l :
        IF l.fatal \/ l.err # "nil" THEN Outcome(l.fatal, None, l.err, l.heap, l.trees)
        ELSE With(FrameGetAll(frame, l.trees), LAMBDA rights :
             With(JoinedRight(fr, rights, 1, l.heap, l.trees), LAMBDA r :
                IF r.fatal \/ r.err # "nil"
                THEN Outcome(r.fatal, None, r.err, r.heap, r.trees)
                ELSE Outcome(FALSE, Some(fr), "nil", r.heap, r.trees)))))))

\* a group with its rows in the reverse order of arrival
PrependRow(group, ref) == <<ref>> \o group

\* GroupBy: append(existingGroup, r.Data)
AppendRow(group, ref) == Append(group, ref)

\* GroupBy: existingRow.Data with group.Column set to the group
WithGroup(data, group) ==
    [col \in DOMAIN data \cup {Column} |-> IF col = Column THEN group ELSE data[col]]

\* GroupBy: existingRow.Data[group.Column].(group.Group), nil if it is none
GroupOf(data) ==
    IF Column \in DOMAIN data /\ data[Column].kind = "Group" THEN data[Column].v
    ELSE <<>>

\* GroupBy: the iterator over the rows of f, from position i
RECURSIVE GroupByLoop(_, _, _, _, _, _)
GroupByLoop(fr, indexer, items, i, h, t) ==
    IF i > Len(items) THEN Outcome(FALSE, Some(fr), "nil", h, t)
    ELSE With(IndexOf(indexer, h, h[items[i].data]), LAMBDA ix :
        IF ix.err # "nil" THEN Outcome(FALSE, Some(fr), ix.err, h, t)
        ELSE With(BTreeGet(t[fr.bt], ix.index), LAMBDA e :
            IF e.fatal THEN Outcome(TRUE, None, "nil", h, t)
            ELSE With(IF e.out = None THEN Row(ix.index, Len(h) + 1) ELSE e.out[1],
                      LAMBDA existingRow :
                 With(IF e.out = None THEN <<>> ELSE h[existingRow.data],
                      LAMBDA data :
                 With(ReplaceOrInsert(t[fr.bt], existingRow), LAMBDA r :
                    IF r.fatal THEN Outcome(TRUE, None, "nil", h, t)
                    ELSE GroupByLoop(fr, indexer, items, i + 1,
                            Store(h, existingRow.data,
                                  WithGroup(data, Group(AppendRow(GroupOf(data),
                                                                  items[i].data)))),
                            [t EXCEPT ![fr.bt] = r.items]))))))

\* f.GroupBy(indexer): ret is the new frame, also when an error is returned
GroupBy(f, indexer, h, t) ==
    With(NewFrame(GroupIndexer(indexer), t), LAMBDA fr :
    With(Ascend(t[f.bt], None, None), LAMBDA a :
        GroupByLoop(fr, indexer, a.rows, 1, h, Append(t, <<>>))))

\* WithIndexer: the iterator over the rows of f, from position i
RECURSIVE WithIndexerLoop(_, _, _, _, _)
WithIndexerLoop(fr, items, i, h, t) ==
    IF i > Len(items) THEN Outcome(FALSE, Some(fr), "nil", h, t)
    ELSE With(FramePut(fr, h, t, items[i].data), LAMBDA p :
            IF p.fatal THEN Outcome(TRUE, None, "nil", h, t)
            ELSE IF p.err # "nil" THEN Outcome(FALSE, Some(fr), p.err, h, t)
            ELSE WithIndexerLoop(fr, items, i + 1, p.heap, p.trees))

\* f.WithIndexer(indexer): ret is the new frame, also when an error is returned
WithIndexer(f, indexer, h, t) ==
    With(NewFrame(indexer, t), LAMBDA fr :
    With(Ascend(t[f.bt], None, None), LAMBDA a :
        WithIndexerLoop(fr, a.rows, 1, h, Append(t, <<>>))))

(***************************************************************************)
(* Inputs: the indexers a frame is built with, and the rows and probes     *)
(* presented to it (rows over the indexed columns and one payload column). *)
(***************************************************************************)
IndexerColumns == {<<>>, <<"i1">>, <<"i1", "i2">>}

ColumnValues(c) ==
    IF c = "i1" THEN {IntV(0), IntV(1), StrV(StrA), StrV(StrAB), NilV}
    ELSE IF c = "i2" THEN {IntV(0), IntV(1)}
    ELSE {StrV(StrX)}

Range(f) == {f[i] : i \in DOMAIN f}

\* every row with exactly the columns S
RowsWith(S) ==
    {r \in [S -> UNION {ColumnValues(c) : c \in S}] :
        \A c \in S : r[c] \in ColumnValues(c)}

\* rows put and looked up: any subset of the indexed and payload columns
RowInputsOf ==
    [cols \in IndexerColumns |->
        UNION {RowsWith(S) : S \in SUBSET (Range(cols) \cup {"data"})}]

RowInputs(cols) == RowInputsOf[cols]

\* probes: the indexed columns only, any subset of them
ProbeInputsOf ==
    [cols \in IndexerColumns |-> UNION {RowsWith(S) : S \in SUBSET Range(cols)}]

ProbeInputs(cols) == ProbeInputsOf[cols]

\* range bounds: unset, the empty probe, or a probe with every indexed
\* column set to an int or a string
BoundInputsOf ==
    [cols \in IndexerColumns |->
        {None} \cup {Some(<<>>)}
               \cup {Some(r) : r \in {p \in RowsWith(Range(cols)) :
                                        \A c \in DOMAIN p : p[c] # NilV}}]

BoundInputs(cols) == BoundInputsOf[cols]

(***************************************************************************)
(* The state machine: a frame built by NewFrame(NewColumnIndexer(columns)) *)
(* and the calls made on it.                                               *)
(***************************************************************************)
Call(op, r) == [op |-> op, ret |-> r.ret, err |-> r.err]

Init ==
    /\ columns \in IndexerColumns
    /\ types = <<>>
    /\ bt = <<>>
    /\ crashed = FALSE
    /\ last = [op |-> "NewFrame", ret |-> None, err |-> "nil"]
    /\ heap = <<>>
    /\ trees = <<>>
    /\ nf = None
    /\ calls = 0
    /\ dfs = <<>>

Returns(op, r) ==
    /\ bt' = r.bt
    /\ types' = r.types
    /\ crashed' = r.fatal
    /\ last' = Call(op, r)
    /\ UNCHANGED <<columns, heap, trees, nf, calls, dfs>>

CallPut(data) ==
    /\ ~crashed
    /\ \E r \in {Put(columns, types, bt, data)} :
        /\ Len(r.bt) <= MaxRows
        /\ Returns("Put", r)

CallGet(key) ==
    /\ ~crashed
    /\ \E r \in {Get(columns, types, bt, key)} : Returns("Get", r)

CallPop(key) ==
    /\ ~crashed
    /\ \E r \in {Pop(columns, types, bt, key)} : Returns("Pop", r)

CallGetRange(ge, lt) ==
    /\ ~crashed
    /\ \E r \in {GetRange(columns, types, bt, ge, lt)} : Returns("GetRange", r)

CallPopRange(ge, lt) ==
    /\ ~crashed
    /\ \E r \in {PopRange(columns, types, bt, ge, lt)} : Returns("PopRange", r)

Next ==
    \/ \E data \in RowInputs(columns) : CallPut(data)
    \/ \E key \in RowInputs(columns) : CallGet(key)
    \/ \E key \in ProbeInputs(columns) : CallPop(key)
    \/ \E ge, lt \in BoundInputs(columns) : CallGetRange(ge, lt)
    \/ \E ge, lt \in BoundInputs(columns) : CallPopRange(ge, lt)

Spec == Init /\ [][Next]_vars

(***************************************************************************)
(* Reference notions used to state the properties: the key of a row as the *)
(* tuple of its indexed column values, ordered as the specification orders *)
(* keys (per-column natural order, lexicographic; the empty key equals     *)
(* itself).  None of these is used by the model of the code above.         *)
(***************************************************************************)
HasKey(cols, row) ==
    \A i \in 1..Len(cols) :
        cols[i] \in DOMAIN row /\ row[cols[i]].kind \in {"int", "string"}

KeyValues(cols, row) == [i \in 1..Len(cols) |-> row[cols[i]]]

SameKey(cols, p, r) ==
    HasKey(cols, p) /\ HasKey(cols, r) /\ KeyValues(cols, p) = KeyValues(cols, r)

ValueLess(u, w) ==
    IF u.kind = "int" /\ w.kind = "int" THEN u.v < w.v
    ELSE IF u.kind = "string" /\ w.kind = "string" THEN StringLess(u.v, w.v)
    ELSE FALSE

\* k1 < k2 for two value tuples of the same columns
KeyLess(k1, k2) ==
    \E i \in 1..Len(k1) :
        /\ ValueLess(k1[i], k2[i])
        /\ \A j \in 1..(i - 1) : k1[j] = k2[j]

\* the positions of the stored rows with the key of probe
Holders(cols, s, probe) == {i \in 1..Len(s) : SameKey(cols, probe, s[i].data)}

RemoveAt(s, i) == SubSeq(s, 1, i - 1) \o SubSeq(s, i + 1, Len(s))

Completed(r) == ~r.fatal /\ r.err = "nil"

(***************************************************************************)
(* C1.  Round trip: every stored row is returned by Get for every probe    *)
(* that agrees with it on the indexed columns, whether or not the probe    *)
(* carries the other columns.                                              *)
(***************************************************************************)
RoundTrip ==
    \A i \in 1..Len(bt) : \A probe \in RowInputs(columns) :
        SameKey(columns, probe, bt[i].data) =>
            LET g == Get(columns, types, bt, probe)
            IN  Completed(g) /\ g.ret = Some(bt[i].data)

\* the same for frames whose indexer has at least one column
RoundTripKeyed == (Len(columns) >= 1) => RoundTrip

(***************************************************************************)
(* C2.  Replace semantics: a Put whose key is not present returns nil and  *)
(* adds one entry; a Put whose key is present returns the stored row,      *)
(* keeps the number of entries, and a following Get returns the new row.   *)
(***************************************************************************)
ReplaceSemantics ==
    \A data \in RowInputs(columns) :
        LET p == Put(columns, types, bt, data)
            held == Holders(columns, bt, data)
        IN  Completed(p) =>
                IF held = {} THEN
                    p.ret = None /\ Len(p.bt) = Len(bt) + 1
                ELSE
                    /\ \E i \in held : p.ret = Some(bt[i].data)
                    /\ Len(p.bt) = Len(bt)
                    /\ Get(columns, p.types, p.bt, data).ret = Some(data)

ReplaceSemanticsKeyed == (Len(columns) >= 1) => ReplaceSemantics

(***************************************************************************)
(* C3.  Ordering: GetRange() with no bounds returns every stored row once, *)
(* and the keys the indexer gives the returned rows are strictly ascending *)
(* under Less.                                                             *)
(***************************************************************************)
Ordering ==
    LET g == GetRange(columns, types, bt, None, None)
        key(i) == Index(columns, types, g.ret[i]).index
    IN  /\ Completed(g)
        /\ Len(g.ret) = Len(bt)
        /\ \A i \in 1..Len(bt) : g.ret[i] = bt[i].data
        /\ \A i, j \in 1..Len(g.ret) : i < j => Less(key(i), key(j)) = Bool(TRUE)

OrderingWitness ==
    /\ last.op = "GetRange" /\ last.err = "nil" /\ ~crashed
    /\ Len(last.ret) = MaxRows
    /\ Len(columns) = 2

(***************************************************************************)
(* C4.  Range selection: GetRange(GreaterOrEqual(lo), LessThan(hi))        *)
(* returns, ascending, exactly the stored rows with key(lo) <= k < key(hi);*)
(* an unset bound does not restrict; a row with the key of hi is excluded. *)
(***************************************************************************)
InBounds(cols, row, ge, lt) ==
    /\ ge # None => ~KeyLess(KeyValues(cols, row), KeyValues(cols, ge[1]))
    /\ lt # None => KeyLess(KeyValues(cols, row), KeyValues(cols, lt[1]))

Selected(cols, s, ge, lt) ==
    LET Test(row) == InBounds(cols, row, ge, lt)
    IN  SelectSeq(RowsData(s), Test)

RangeSelection ==
    \A ge, lt \in BoundInputs(columns) :
        LET g == GetRange(columns, types, bt, ge, lt)
        IN  Completed(g) => g.ret = Selected(columns, bt, ge, lt)

RangeSelectionKeyed == (Len(columns) >= 1) => RangeSelection

(***************************************************************************)
(* C5.  Pop: for a present key Pop returns the stored row and removes that *)
(* entry only (a following Get returns nil); for an absent key it returns  *)
(* nil without error and changes nothing.                                  *)
(***************************************************************************)
PopRemoves ==
    \A key \in RowInputs(columns) :
        LET p == Pop(columns, types, bt, key)
            held == Holders(columns, bt, key)
        IN  Completed(p) =>
                IF held = {} THEN p.ret = None /\ p.bt = bt
                ELSE \E i \in held :
                        /\ p.ret = Some(bt[i].data)
                        /\ p.bt = RemoveAt(bt, i)
                        /\ Get(columns, p.types, p.bt, key).ret = None

PopRemovesKeyed == (Len(columns) >= 1) => PopRemoves

(***************************************************************************)
(* C6.  PopRange returns the rows GetRange returns for the same bounds in  *)
(* the same state, in the same order, and leaves exactly the entries that  *)
(* were not selected.                                                      *)
(***************************************************************************)
PopRangeRemoves ==
    \A ge, lt \in BoundInputs(columns) :
        LET g == GetRange(columns, types, bt, ge, lt)
            p == PopRange(columns, types, bt, ge, lt)
            Kept(row) == \A k \in 1..Len(g.ret) : g.ret[k] # row.data
        IN  Completed(p) =>
                /\ Completed(g)
                /\ p.ret = g.ret
                /\ p.bt = SelectSeq(bt, Kept)

PopRangeRemovesKeyed == (Len(columns) >= 1) => PopRangeRemoves

(***************************************************************************)
(* C7.  A Put whose row the indexer rejects returns the indexer's error    *)
(* and leaves the frame with the entries it had.                           *)
(***************************************************************************)
PutFailureKeepsStore ==
    \A data \in RowInputs(columns) :
        LET ix == Index(columns, types, data)
            p == Put(columns, types, bt, data)
        IN  ix.err # "nil" =>
                /\ ~p.fatal
                /\ p.err = ix.err
                /\ p.ret = None
                /\ p.bt = bt

PutFailureWitness ==
    /\ last.op = "Put" /\ last.err # "nil" /\ ~crashed
    /\ bt # <<>>

(***************************************************************************)
(* C8.  Type stability: once the indexer has indexed a row with an int in  *)
(* column x, indexing a row with a string in x returns an error.           *)
(***************************************************************************)
TypeStability ==
    \A i \in 1..Len(bt) : \A data \in RowInputs(columns) :
        \A c \in Range(columns) :
            ( /\ Range(columns) \subseteq DOMAIN data
              /\ TypeOf(bt[i].data[c]) = "int"
              /\ TypeOf(data[c]) = "string" )
            => Index(columns, types, data).err # "nil"

(***************************************************************************)
(* C9.  A key-type mismatch never terminates the process: no Put, Get or   *)
(* Pop ends in log.Fatal.                                                  *)
(***************************************************************************)
KeyTypeMismatchRecoverable ==
    /\ ~crashed
    /\ \A row \in RowInputs(columns) :
        /\ ~Put(columns, types, bt, row).fatal
        /\ ~Get(columns, types, bt, row).fatal
        /\ ~Pop(columns, types, bt, row).fatal

(***************************************************************************)
(* C10.  Less is a strict weak ordering on the keys the indexer has given  *)
(* to the stored rows and to any row presented: irreflexive, asymmetric,   *)
(* transitive, with transitive incomparability.                            *)
(***************************************************************************)
\* the keys of one kind (the kind of k) the frame's indexer produces
KeysLike(k) ==
    {x \in {Index(columns, types, r).index : r \in RowInputs(columns)} :
        x # NoIndex /\ ~Less(x, k).fatal /\ ~Less(k, x).fatal}

Lt(a, b) == Less(a, b).lt

StrictWeakOrderOn(K) ==
    /\ \A a \in K : ~Lt(a, a)
    /\ \A a, b \in K : ~(Lt(a, b) /\ Lt(b, a))
    /\ \A a, b, c \in K : Lt(a, b) /\ Lt(b, c) => Lt(a, c)
    /\ \A a, b, c \in K :
        (~Lt(a, b) /\ ~Lt(b, a) /\ ~Lt(b, c) /\ ~Lt(c, b))
            => (~Lt(a, c) /\ ~Lt(c, a))

StrictWeakOrdering ==
    \A i \in 1..Len(bt) : StrictWeakOrderOn(KeysLike(bt[i].index))

StrictWeakOrderingKeyed == (Len(columns) >= 1) => StrictWeakOrdering

(***************************************************************************)
(* Composite keys compared directly: two MultiIndex values built with      *)
(* NewMultiIndex from up to MaxIndices indices each, and one call of Less. *)
(***************************************************************************)
MaxIndices == 2

StrB == <<98>>

\* the indices NewMultiIndex is given
MultiElements ==
    {IntIndex(0), IntIndex(1), StringIndex(StrA), StringIndex(StrB), NullIndex}

MultiIndices ==
    {NewMultiIndex(v) : v \in UNION {[1..n -> MultiElements] : n \in 0..MaxIndices}}

InitLess ==
    /\ columns = <<>>
    /\ types = <<>>
    /\ bt = <<>>
    /\ crashed = FALSE
    /\ heap = <<>>
    /\ trees = <<>>
    /\ nf = None
    /\ calls = 0
    /\ dfs = <<>>
    /\ \E m1, m2 \in MultiIndices :
        last = [op |-> "NewMultiIndex", ret |-> <<m1, m2>>, err |-> "nil"]

\* m1.Less(m2)
CallLess ==
    /\ ~crashed
    /\ last.op = "NewMultiIndex"
    /\ \E r \in {Less(last.ret[1], last.ret[2])} :
        /\ crashed' = r.fatal
        /\ last' = [op |-> "Less", ret |-> <<last.ret[1], last.ret[2], r.lt>>,
                    err |-> "nil"]
    /\ UNCHANGED <<columns, types, bt, heap, trees, nf, calls, dfs>>

NextLess == CallLess

SpecLess == InitLess /\ [][NextLess]_vars

\* the elements of two composites are pairwise of the same kind
SameKinds(m1, m2) ==
    \A i \in 1..Len(m1) : i <= Len(m2) => m1[i].kind = m2[i].kind

\* the natural order of two indices of one kind (two empty keys are equal)
ElementLess(x, y) ==
    IF x.kind = "int" THEN x.v < y.v
    ELSE IF x.kind = "string" THEN StringLess(x.v, y.v)
    ELSE FALSE

\* the lexicographic reference with the prefix rule
LexLess(m1, m2) ==
    \/ \E i \in 1..Len(m1) :
        /\ i <= Len(m2)
        /\ ElementLess(m1[i], m2[i])
        /\ \A j \in 1..(i - 1) : m1[j] = m2[j]
    \/ /\ Len(m1) < Len(m2)
       /\ \A j \in 1..Len(m1) : m1[j] = m2[j]

(***************************************************************************)
(* C11.  Composite comparison with prefix rule: for two MultiIndex values  *)
(* whose elements are pairwise of the same kind, Less returns (without     *)
(* ending the process) what the lexicographic reference gives: the first   *)
(* differing position decides, and on equal shared positions the shorter   *)
(* composite is the lesser.                                                *)
(***************************************************************************)
PrefixRule ==
    (last.op = "Less" /\ SameKinds(last.ret[1].v, last.ret[2].v)) =>
        /\ ~crashed
        /\ last.ret[3] = LexLess(last.ret[1].v, last.ret[2].v)

\* the same for composites of IntIndex and StringIndex elements only
PrefixRuleScalar ==
    (\A i \in {1, 2} : \A x \in Range(last.ret[i].v) : x # NullIndex)
        => PrefixRule

\* ["a"] and ["a","b"] have been compared
PrefixRuleWitness ==
    /\ last.op = "Less"
    /\ last.ret[1] = NewMultiIndex(<<StringIndex(StrA)>>)
    /\ last.ret[2] = NewMultiIndex(<<StringIndex(StrA), StringIndex(StrB)>>)
    /\ last.ret[3] = TRUE

(***************************************************************************)
(* C12.  Missing column: the indexer returns an error and no key for every *)
(* row that lacks one of its columns, and a key without error for every    *)
(* row that has an int or a string in each of them.                        *)
(***************************************************************************)
MissingColumn ==
    \A data \in RowInputs(columns) :
        LET ix == Index(columns, types, data)
        IN  /\ (\E c \in Range(columns) : c \notin DOMAIN data)
                => (ix.err # "nil" /\ ix.index = NoIndex)
            /\ HasKey(columns, data) => (ix.err = "nil" /\ ix.index # NoIndex)

\* a lookup was refused for a missing column by an indexer of two columns
\* that has indexed stored rows
MissingColumnWitness ==
    /\ last.op = "Get" /\ last.err = "missing" /\ ~crashed
    /\ Len(columns) = 2
    /\ bt # <<>>

(***************************************************************************)
(* Derived frames: two source frames f and frame, both built with          *)
(* NewFrame(NewColumnIndexer(columns)) (their trees are trees[1] and       *)
(* trees[2]), filled by Put with new maps; then one of f.Joined(frame),    *)
(* f.GroupBy(indexer), f.WithIndexer(indexer) gives nf (the last two while *)
(* frame is still empty: it takes no part in them).  After WithIndexer     *)
(* the program goes on to use f and nf: Put, Pop, PopRange, and a change   *)
(* of the payload column of a row obtained with Get.                       *)
(***************************************************************************)
MaxSourceRows == 2    \* entries of a source frame
MaxCalls == 2         \* calls made on f and nf after WithIndexer

StrY == <<121>>

\* the frames f (side 1) and frame (side 2)
Source(side) == [indexer |-> NewColumnIndexer(columns), bt |-> side]

\* the columns of the indexer given to GroupBy and WithIndexer
NewIndexerColumns == {<<>>, <<"i1">>, <<"i2">>, <<"data">>}

SourceValues(c) ==
    IF c = "i1" THEN {IntV(0), IntV(1), StrV(StrA)}
    ELSE IF c = "i2" THEN {IntV(0), IntV(1)}
    ELSE {StrV(StrX)}

\* the rows put into the sources: the indexed columns, "i1" and the
\* payload, with or without "i2" when it is not indexed
SourceRowsOf ==
    [cols \in IndexerColumns |->
        UNION {{r \in [S -> UNION {SourceValues(c) : c \in S}] :
                    \A c \in S : r[c] \in SourceValues(c)} :
               S \in {T \in SUBSET {"i1", "i2", "data"} :
                        Range(cols) \cup {"i1", "data"} \subseteq T}}]

SourceRows(cols) == SourceRowsOf[cols]

\* the probes of Get and Pop on a frame indexed by cols
KeyProbesOf ==
    [cols \in IndexerColumns \cup NewIndexerColumns |->
        {r \in [Range(cols) -> UNION {SourceValues(c) : c \in Range(cols)}] :
            \A c \in Range(cols) : r[c] \in SourceValues(c)}]

KeyProbes(cols) == KeyProbesOf[cols]

\* the map the program builds for a row: its columns and a serial number
WithId(data, n) ==
    [col \in DOMAIN data \cup {"id"} |-> IF col = "id" THEN IntV(n) ELSE data[col]]

InitDerived ==
    /\ columns \in IndexerColumns
    /\ types = <<>>
    /\ bt = <<>>
    /\ crashed = FALSE
    /\ last = [op |-> "NewFrame", ret |-> None, err |-> "nil"]
    /\ heap = <<>>
    /\ trees = << <<>>, <<>> >>
    /\ nf = None
    /\ calls = 0
    /\ dfs = <<>>

\* the heaps and the outcome of a call; the frame variable nf is set apart
Done(op, r) ==
    /\ heap' = r.heap
    /\ trees' = r.trees
    /\ crashed' = r.fatal
    /\ last' = Call(op, r)
    /\ UNCHANGED <<columns, types, bt, dfs>>

\* f.Put(data) or frame.Put(data) with a new map, adding an entry; f is
\* filled before frame
PutSource(side, data) ==
    /\ ~crashed /\ nf = None
    /\ side = 1 => trees[2] = <<>>
    /\ \E r \in {FramePut(Source(side), Append(heap, WithId(data, Len(heap) + 1)),
                          trees, Len(heap) + 1)} :
        /\ r.fatal \/ (r.err = "nil" /\ r.ret = None)
        /\ Len(r.trees[side]) <= MaxSourceRows
        /\ Done("Put", r)
    /\ UNCHANGED <<nf, calls>>

\* nf, err := f.Joined(frame)
CallJoined ==
    /\ ~crashed /\ nf = None
    /\ \E r \in {Joined(Source(1), Source(2), heap, trees)} :
        /\ Done("Joined", r)
        /\ nf' = r.ret
        /\ UNCHANGED calls

\* nf, err := f.GroupBy(NewColumnIndexer(cols...))
CallGroupBy(cols) ==
    /\ ~crashed /\ nf = None /\ trees[2] = <<>>
    /\ \E r \in {GroupBy(Source(1), NewColumnIndexer(cols), heap, trees)} :
        /\ Done("GroupBy", r)
        /\ nf' = r.ret
        /\ UNCHANGED calls

\* nf, err := f.WithIndexer(NewColumnIndexer(cols...))
CallWithIndexer(cols) ==
    /\ ~crashed /\ nf = None /\ trees[2] = <<>>
    /\ \E r \in {WithIndexer(Source(1), NewColumnIndexer(cols), heap, trees)} :
        /\ Done("WithIndexer", r)
        /\ nf' = r.ret
        /\ UNCHANGED calls

\* the frame a later call is made on: f or nf
Which(w) == IF w = "f" THEN Source(1) ELSE nf[1]

OpOn(w, op) ==
    IF w = "f" THEN op
    ELSE IF op = "Put" THEN "nf.Put"
    ELSE IF op = "Pop" THEN "nf.Pop"
    ELSE IF op = "PopRange" THEN "nf.PopRange"
    ELSE "nf.Set"

\* Frame.Pop(key) on a frame with a ColumnIndexer
FramePop(fr, h, t, key) ==
    With(Pop(fr.indexer.columns, fr.indexer.types, t[fr.bt], key), LAMBDA p :
        Outcome(p.fatal, p.ret, p.err, h, [t EXCEPT ![fr.bt] = p.bt]))

\* Frame.PopRange() on a frame with a ColumnIndexer
FramePopRange(fr, h, t) ==
    With(PopRange(fr.indexer.columns, fr.indexer.types, t[fr.bt], None, None),
         LAMBDA p : Outcome(p.fatal, p.ret, p.err, h, [t EXCEPT ![fr.bt] = p.bt]))

\* row, _ := fr.Get(key); if row != nil { row["data"] = "y" }
SetData(fr, h, t, key) ==
    With(FrameGet(fr, h, t, key), LAMBDA g :
        IF g.fatal \/ g.err # "nil" \/ g.ret = None THEN g
        ELSE Outcome(FALSE, g.ret, "nil",
                     [h EXCEPT ![g.ret[1]] =
                        [col \in DOMAIN @ \cup {"data"} |->
                            IF col = "data" THEN StrV(StrY) ELSE @[col]]],
                     t))

\* nf is the frame WithIndexer returned
Reindexed == nf # None /\ nf[1].indexer.kind = "column"

\* one more call on f or nf
Follows == Reindexed /\ calls < MaxCalls /\ calls' = calls + 1 /\ UNCHANGED nf

\* the rows put into f and nf after WithIndexer
LaterRows == {r \in SourceRows(<<"i1", "i2">>) : r["i1"].kind = "int" /\ r["i2"] = IntV(0)}

\* the probes given to Pop and Get after WithIndexer
LaterProbes(cols) == {r \in KeyProbes(cols) : \A c \in DOMAIN r : r[c].kind = "int"}

CallPutOn(w, data) ==
    /\ ~crashed /\ Follows
    /\ \E r \in {FramePut(Which(w), Append(heap, WithId(data, Len(heap) + 1)),
                          trees, Len(heap) + 1)} :
        /\ Len(r.trees[Which(w).bt]) <= MaxSourceRows
        /\ Done(OpOn(w, "Put"), r)

CallPopOn(w, key) ==
    /\ ~crashed /\ Follows
    /\ \E r \in {FramePop(Which(w), heap, trees, key)} : Done(OpOn(w, "Pop"), r)

CallPopRangeOn(w) ==
    /\ ~crashed /\ Follows
    /\ \E r \in {FramePopRange(Which(w), heap, trees)} : Done(OpOn(w, "PopRange"), r)

CallSetData(w, key) ==
    /\ ~crashed /\ Follows
    /\ "data" \notin Range(columns) \cup Range(nf[1].indexer.columns)
    /\ \E r \in {SetData(Which(w), heap, trees, key)} : Done(OpOn(w, "Set"), r)

NextDerived ==
    \/ \E side \in {1, 2} : \E data \in SourceRows(columns) : PutSource(side, data)
    \/ CallJoined
    \/ \E cols \in NewIndexerColumns : CallGroupBy(cols)
    \/ \E cols \in NewIndexerColumns : CallWithIndexer(cols)
    \/ \E w \in {"f", "nf"} : \E data \in LaterRows : CallPutOn(w, data)
    \/ \E w \in {"f", "nf"} :
            Reindexed /\ \E key \in LaterProbes(Which(w).indexer.columns) :
                            CallPopOn(w, key)
    \/ \E w \in {"f", "nf"} : CallPopRangeOn(w)
    \/ \E w \in {"f", "nf"} :
            Reindexed /\ \E key \in LaterProbes(Which(w).indexer.columns) :
                            CallSetData(w, key)

SpecDerived == InitDerived /\ [][NextDerived]_vars

(***************************************************************************)
(* Reference notions for the derived frames.                               *)
(***************************************************************************)
\* the call op has returned a frame and no error
Returned(op) == last.op = op /\ ~crashed /\ last.err = "nil" /\ nf # None

\* the rows (their columns) of the tree at address a, ascending
RowsOf(a) == [i \in 1..Len(trees[a]) |-> heap[trees[a][i].data]]

\* the rows of a source with the key k
WithKey(side, k) == {r \in Range(RowsOf(side)) : KeyValues(columns, r) = k}

SourceKeys(side) == {KeyValues(columns, r) : r \in Range(RowsOf(side))}

\* the key of a row of JoinResults: the key of its left values, or of its
\* right values where there is no left value
JoinedKey(row) == KeyValues(columns, Projection(row))

ValueAt(row, col) == IF col \in DOMAIN row THEN row[col] ELSE NilV

(***************************************************************************)
(* C13.  Join completeness: the frame returned by f.Joined(frame) has      *)
(* exactly one row for each key of f or frame, and no row for another key. *)
(***************************************************************************)
JoinCompleteness ==
    Returned("Joined") =>
        LET res == RowsOf(nf[1].bt)
            union == SourceKeys(1) \cup SourceKeys(2)
        IN  /\ \A k \in union :
                Cardinality({j \in 1..Len(res) : JoinedKey(res[j]) = k}) = 1
            /\ \A j \in 1..Len(res) : JoinedKey(res[j]) \in union

JoinCompletenessKeyed == (Len(columns) >= 1) => JoinCompleteness

(***************************************************************************)
(* C14.  Join pairing: every column of every row of the joined frame holds *)
(* a JoinResult; for a key of both sides Left is the left row's value and  *)
(* Right the right row's (nil where that row lacks the column); for a key  *)
(* of one side only the other side's slot is nil in every column.          *)
(***************************************************************************)
JoinPairing ==
    Returned("Joined") =>
        \A row \in Range(RowsOf(nf[1].bt)) :
            LET L == WithKey(1, JoinedKey(row))
                R == WithKey(2, JoinedKey(row))
            IN  /\ \A col \in DOMAIN row : row[col].kind = "JoinResult"
                /\ IF L # {} /\ R # {} THEN
                        \E l \in L, r \in R :
                            /\ DOMAIN row = DOMAIN l \cup DOMAIN r
                            /\ \A col \in DOMAIN row :
                                /\ row[col].Left = ValueAt(l, col)
                                /\ row[col].Right = ValueAt(r, col)
                   ELSE IF L # {} THEN
                        \E l \in L :
                            /\ DOMAIN row = DOMAIN l
                            /\ \A col \in DOMAIN row :
                                row[col].Left = l[col] /\ row[col].Right = NilV
                   ELSE \E r \in R :
                            /\ DOMAIN row = DOMAIN r
                            /\ \A col \in DOMAIN row :
                                row[col].Left = NilV /\ row[col].Right = r[col]

JoinPairingKeyed == (Len(columns) >= 1) => JoinPairing

(***************************************************************************)
(* C15.  Join and GroupBy never mutate their inputs: when f.Joined(frame)  *)
(* or f.GroupBy(indexer) returns, with or without an error, f and frame    *)
(* hold the entries they held, under the same keys, with rows of the same  *)
(* columns and values, and the frame returned is on a tree of its own.     *)
(***************************************************************************)
InputsKept ==
    [][ (last'.op \in {"Joined", "GroupBy"} /\ nf = None /\ ~crashed') =>
            /\ \A side \in {1, 2} :
                /\ Len(trees'[side]) = Len(trees[side])
                /\ \A i \in 1..Len(trees[side]) :
                    /\ trees'[side][i].index = trees[side][i].index
                    /\ heap'[trees'[side][i].data] = heap[trees[side][i].data]
            /\ nf' # None => nf'[1].bt > Len(trees)
      ]_vars

\* a join of two frames of two rows each that share one key has returned
InputsKeptWitness ==
    /\ last.op = "Joined" /\ ~crashed /\ nf # None
    /\ Len(columns) = 2
    /\ Len(trees[1]) = 2 /\ Len(trees[2]) = 2
    /\ Len(trees[nf[1].bt]) = 3

(***************************************************************************)
(* C16.  Group-by partition: the frame returned by f.GroupBy(indexer) has  *)
(* one row per grouping key occurring among the rows of f; each row has    *)
(* the single column group.Column, holding a Group; every row of f is in   *)
(* exactly one group, once, with the rows of its own grouping key; and Get *)
(* with a probe whose Group holds a row of f returns the group of that row.*)
(***************************************************************************)
\* the columns of the indexer given to GroupBy
GroupingColumns == nf[1].indexer.RowIndexer.columns

\* the group (the addresses of its rows) of the j-th row of the result
GroupAt(j) == heap[trees[nf[1].bt][j].data][Column].v

\* the addresses of the rows of f
SourceRefs == {trees[1][i].data : i \in 1..Len(trees[1])}

GroupingKey(ref) == KeyValues(GroupingColumns, heap[ref])

GroupPartition ==
    Returned("GroupBy") =>
        LET n == Len(trees[nf[1].bt])
            keys == {GroupingKey(r) : r \in SourceRefs}
        IN  /\ \A j \in 1..n :
                LET data == heap[trees[nf[1].bt][j].data]
                IN  /\ DOMAIN data = {Column}
                    /\ data[Column].kind = "Group"
                    /\ data[Column].v # <<>>
                    /\ \A p \in 1..Len(GroupAt(j)) :
                        GroupingKey(GroupAt(j)[p]) = GroupingKey(GroupAt(j)[1])
            /\ \A k \in keys :
                Cardinality({j \in 1..n : GroupingKey(GroupAt(j)[1]) = k}) = 1
            /\ n = Cardinality(keys)
            /\ \A r \in SourceRefs :
                Cardinality({jp \in (1..n) \X (1..Len(trees[1])) :
                                /\ jp[2] <= Len(GroupAt(jp[1]))
                                /\ GroupAt(jp[1])[jp[2]] = r}) = 1
            /\ \A r \in SourceRefs :
                LET got == FrameGet(nf[1], heap, trees,
                                    [c \in {Column} |-> Group(<<r>>)])
                IN  /\ Completed(got)
                    /\ got.ret # None
                    /\ r \in Range(heap[got.ret[1]][Column].v)

\* the same when the grouping indexer has at least one column
GroupPartitionKeyed ==
    (Returned("GroupBy") => Len(GroupingColumns) >= 1) => GroupPartition

(***************************************************************************)
(* C17.  Group-by ordering: within every group of the frame GroupBy        *)
(* returns, the rows follow each other as f's own GetRange() returns them, *)
(* that is by ascending key of f's indexer, whatever the order in which    *)
(* they were put into f.                                                   *)
(***************************************************************************)
\* the position of the row at address ref in f.GetRange()
PositionInSource(ref) ==
    CHOOSE i \in 1..Len(trees[1]) : FrameGetAll(Source(1), trees)[i] = ref

SourceKey(ref) == Index(columns, types, heap[ref]).index

GroupOrdering ==
    (last.op = "GroupBy" /\ ~crashed /\ nf # None) =>
        \A j \in 1..Len(trees[nf[1].bt]) :
            \A a, b \in 1..Len(GroupAt(j)) :
                a < b =>
                    /\ GroupAt(j)[a] \in SourceRefs /\ GroupAt(j)[b] \in SourceRefs
                    /\ PositionInSource(GroupAt(j)[a]) < PositionInSource(GroupAt(j)[b])
                    /\ Less(SourceKey(GroupAt(j)[a]), SourceKey(GroupAt(j)[b]))
                            = Bool(TRUE)

\* a group of two rows of a two-column frame, the second put first
GroupOrderingWitness ==
    /\ last.op = "GroupBy" /\ ~crashed /\ nf # None /\ last.err = "nil"
    /\ Len(columns) = 2
    /\ \E j \in 1..Len(trees[nf[1].bt]) : GroupAt(j) = <<2, 1>>

(***************************************************************************)
(* C18.  Re-index preserves payloads: when the new indexer gives every row *)
(* of f a key and no two rows the same key, f.WithIndexer(indexer) returns *)
(* without error a frame whose GetRange() yields the rows (the same maps)  *)
(* f.GetRange() yields, each once, ascending by the new keys.              *)
(***************************************************************************)
\* cols gives every row of f a key, and different rows different keys
DistinctKeys(cols) ==
    /\ \A r \in SourceRefs : HasKey(cols, heap[r])
    /\ \A r1, r2 \in SourceRefs :
        r1 # r2 => KeyValues(cols, heap[r1]) # KeyValues(cols, heap[r2])

\* the keys cols gives the rows of f are of one kind in each column
OneKind(cols) ==
    \A r1, r2 \in SourceRefs : \A i \in 1..Len(cols) :
        heap[r1][cols[i]].kind = heap[r2][cols[i]].kind

ReindexedAs(cols) ==
    LET r == WithIndexer(Source(1), NewColumnIndexer(cols), heap, trees)
        got == FrameGetAll(r.ret[1], r.trees)
    IN  /\ ~r.fatal /\ r.err = "nil" /\ r.ret # None
        /\ Len(got) = Len(trees[1])
        /\ Range(got) = Range(FrameGetAll(Source(1), trees))
        /\ \A a, b \in 1..Len(got) :
            a < b => KeyLess(KeyValues(cols, r.heap[got[a]]),
                             KeyValues(cols, r.heap[got[b]]))

ReindexPreserves ==
    (nf = None /\ ~crashed /\ trees[2] = <<>>) =>
        \A cols \in NewIndexerColumns : DistinctKeys(cols) => ReindexedAs(cols)

\* the same when the new keys are of one kind in each column
ReindexPreservesOneKind ==
    (nf = None /\ ~crashed /\ trees[2] = <<>>) =>
        \A cols \in NewIndexerColumns :
            (DistinctKeys(cols) /\ OneKind(cols)) => ReindexedAs(cols)

(***************************************************************************)
(* C19.  Re-indexed frames are structurally independent: after             *)
(* nf = f.WithIndexer(indexer), a Put, Pop or PopRange on nf leaves the    *)
(* entries of f as they are, and one on f leaves the entries of nf.        *)
(***************************************************************************)
Independent ==
    [][ (calls' = calls + 1) =>
            /\ last'.op \in {"nf.Put", "nf.Pop", "nf.PopRange"}
                => trees'[1] = trees[1]
            /\ last'.op \in {"Put", "Pop", "PopRange"}
                => trees'[nf[1].bt] = trees[nf[1].bt]
      ]_vars

\* a Pop on nf has removed an entry, and f holds its two entries
IndependentWitness ==
    /\ last.op = "nf.Pop" /\ ~crashed /\ last.ret # None
    /\ Len(trees[1]) = 2
    /\ Len(trees[nf[1].bt]) = 1

(***************************************************************************)
(* C20.  Re-indexed frames share row payloads: after                       *)
(* nf = f.WithIndexer(indexer), as long as an entry (told by its serial    *)
(* number) is in both frames, the row f returns for it and the row nf      *)
(* returns for it have the same columns and values, also after a column    *)
(* that is not indexed has been changed through either.                    *)
(***************************************************************************)
SharedPayloads ==
    Reindexed =>
        \A a \in Range(FrameGetAll(Source(1), trees)) :
            \A b \in Range(FrameGetAll(nf[1], trees)) :
                heap[a]["id"] = heap[b]["id"] => heap[a] = heap[b]

\* the payload of a row obtained from nf was changed, and f holds that row
SharedPayloadsWitness ==
    /\ last.op = "nf.Set" /\ ~crashed /\ last.ret # None
    /\ \E i \in 1..Len(trees[1]) :
        /\ heap[trees[1][i].data]["data"] = StrV(StrY)
        /\ \E j \in 1..Len(trees[nf[1].bt]) :
            heap[trees[nf[1].bt][j].data]["id"] = heap[trees[1][i].data]["id"]

(***************************************************************************)
(* DataFrame: a View over an in-memory matrix.  A view is the struct       *)
(* [rows, cols, values, rowLabelIndex, colLabelIndex, rowIndices,          *)
(* colIndices]; slices are sequences whose Go index i is the TLA+ index    *)
(* i + 1; the views are held by reference in dfs.  An index out of range   *)
(* is Go's run-time panic, which ends the process.  The label slices rows  *)
(* and cols are sliced as well as indexed, so that their capacity counts:  *)
(* rowsSpare and colsSpare are the elements of their backing arrays from   *)
(* the length up to the capacity.                                          *)
(***************************************************************************)
MaxDim == 2      \* rows, and values in a row, of the matrix given
MaxSpare == 1    \* capacity beyond the length of a label slice given
MaxViews == 4    \* views held: NewDataFrame's and those derived from it

\* Value.Hash of an IntValue or a StringValue: the dynamic type and the
\* (injective) encoding of the value
Hash(v) == <<v.kind, v.v>>

\* Int(i) for each i
Ints(input) == [i \in DOMAIN input |-> IntV(input[i])]

intRange(max) == [i \in 1..max |-> i - 1]

\* s[i] is defined
InRange(s, i) == i \in 0..(Len(s) - 1)

\* s[i : i+1] is defined, s having spare beyond its length
InCapacity(s, spare, i) == i \in 0..(Len(s) + Len(spare) - 1)

\* the outcome of an expression that indexes slices
Ok(x) == [panic |-> FALSE, v |-> x]
Panics == [panic |-> TRUE, v |-> <<>>]

\* the label index that keeps the first place of a repeated label and
\* reports no duplicate
LabelIndexKeepingFirst(labels, i, m) ==
    [dup |-> FALSE,
     m |-> [h \in {Hash(labels[k]) : k \in DOMAIN labels} |->
              (CHOOSE k \in DOMAIN labels :
                  Hash(labels[k]) = h /\ \A j \in 1..(k - 1) : Hash(labels[j]) # h) - 1]]

\* the loops of NewDataFrame that fill rowLabelIndex and colLabelIndex
RECURSIVE LabelIndexLoop(_, _, _)
LabelIndexLoop(labels, i, m) ==
    IF i >= Len(labels) THEN [dup |-> FALSE, m |-> m]
    ELSE IF Hash(labels[i + 1]) \in DOMAIN m THEN [dup |-> TRUE, m |-> m]
    ELSE LabelIndexLoop(labels, i + 1,
            [h \in DOMAIN m \cup {Hash(labels[i + 1])} |->
                IF h \in DOMAIN m THEN m[h] ELSE i])

\* the loop of NewDataFrame over the value rows; cols is nil (None) until
\* the first row gives its length
RECURSIVE ColsLoop(_, _, _)
ColsLoop(cols, values, i) ==
    IF i >= Len(values) THEN [err |-> "nil", cols |-> cols]
    ELSE With(IF cols = None THEN Some(Ints(intRange(Len(values[i + 1]))))
              ELSE cols,
              LAMBDA c :
                IF Len(values[i + 1]) # Len(c[1])
                THEN [err |-> "cols and values have inconsistent dimensions",
                      cols |-> c]
                ELSE ColsLoop(c, values, i + 1))

\* a nil slice read as an empty one
Slice(opt) == IF opt = None THEN <<>> ELSE opt[1]

\* NewDataFrame(rows, cols, values): rows and cols are None (nil) or
\* Some(labels), with rowsSpare and colsSpare beyond their lengths; the
\* result is the view, or None, and the error.  The labels that Ints makes
\* for a nil list have no capacity to spare.
NewDataFrame(rows, rowsSpare, cols, colsSpare, values) ==
    With(IF rows = None THEN Ints(intRange(Len(values))) ELSE rows[1],
         LAMBDA r :
    IF Len(r) # Len(values)
    THEN [ret |-> None, err |-> "rows and values have inconsistent dimensions"]
    ELSE With(ColsLoop(cols, values, 0), LAMBDA cl :
    IF cl.err # "nil" THEN [ret |-> None, err |-> cl.err]
    ELSE With(LabelIndexLoop(r, 0, <<>>), LAMBDA ri :
    IF ri.dup THEN [ret |-> None, err |-> "row labels are not unique"]
    ELSE With(LabelIndexLoop(Slice(cl.cols), 0, <<>>), LAMBDA ci :
    IF ci.dup THEN [ret |-> None, err |-> "col labels are not unique"]
    ELSE [ret |-> Some([rows |-> r,
                        rowsSpare |-> IF rows = None THEN <<>> ELSE rowsSpare,
                        cols |-> Slice(cl.cols),
                        colsSpare |-> IF cols = None THEN <<>> ELSE colsSpare,
                        values |-> values,
                        rowLabelIndex |-> ri.m,
                        colLabelIndex |-> ci.m,
                        rowIndices |-> intRange(Len(r)),
                        colIndices |-> intRange(Len(Slice(cl.cols)))]),
          err |-> "nil"]))))

valuesForIndices(v, indices) ==
    IF \A k \in DOMAIN indices : InRange(v, indices[k])
    THEN Ok([k \in DOMAIN indices |-> v[indices[k] + 1]])
    ELSE Panics

\* the callbacks handed to the views: a Predicate and a Transform.  "odd"
\* asserts the type of its first value before it reads it, and so holds
\* of no nil Value
Holds(p, vals) ==
    IF p = "all" THEN TRUE
    ELSE IF p = "none" THEN FALSE
    ELSE Len(vals) > 0 /\ vals[1].kind = "int" /\ vals[1].v % 2 = 1

Apply(t, vals) ==
    IF t = "id" THEN vals
    ELSE IF t = "first" THEN (IF Len(vals) = 0 THEN <<>> ELSE <<vals[1]>>)
    ELSE <<IntV(Len(vals))>>

\* p(v[i : i+1]) for each visible index i: the slice expression reaches
\* up to the capacity of v, into spare
indexSubsetWhere(v, spare, indices, p) ==
    IF \A k \in DOMAIN indices : InCapacity(v, spare, indices[k])
    THEN Ok(SelectSeq(indices, LAMBDA i : Holds(p, <<(v \o spare)[i + 1]>>)))
    ELSE Panics

valueIndicesInIndex(v, m) ==
    With(SelectSeq(v, LAMBDA value : Hash(value) \in DOMAIN m),
         LAMBDA found : [k \in DOMAIN found |-> m[Hash(found[k])]])

\* a view method's outcome: the views as they are on return, and the
\* address of the view returned (0: a nil View)
Viewed(panic, ret, h) == [panic |-> panic, ret |-> ret, h |-> h]

\* the method panicked
Panicked(h) == Viewed(TRUE, 0, h)

\* d.rowIndices = i on the receiver itself
setRowIndices(h, d, i) ==
    Viewed(FALSE, d, [h EXCEPT ![d].rowIndices = i])

copyWithRowIndices(h, d, i) ==
    Viewed(FALSE, Len(h) + 1, Append(h, [h[d] EXCEPT !.rowIndices = i]))

copyWithColIndices(h, d, i) ==
    Viewed(FALSE, Len(h) + 1, Append(h, [h[d] EXCEPT !.colIndices = i]))

Cols(h, d, v) ==
    copyWithColIndices(h, d, valueIndicesInIndex(v, h[d].colLabelIndex))

Rows(h, d, v) ==
    copyWithRowIndices(h, d, valueIndicesInIndex(v, h[d].rowLabelIndex))

\* d.ColAt(i) on the view d
ColAt(d, i) ==
    IF \A k \in DOMAIN d.rowIndices :
          /\ InRange(d.values, d.rowIndices[k])
          /\ InRange(d.colIndices, i)
          /\ InRange(d.values[d.rowIndices[k] + 1], d.colIndices[i + 1])
    THEN Ok([k \in DOMAIN d.rowIndices |->
                d.values[d.rowIndices[k] + 1][d.colIndices[i + 1] + 1]])
    ELSE Panics

\* d.RowAt(i) on the view d
RowAt(d, i) ==
    IF \A k \in DOMAIN d.colIndices :
          /\ InRange(d.rowIndices, i)
          /\ InRange(d.values, d.rowIndices[i + 1])
          /\ InRange(d.values[d.rowIndices[i + 1] + 1], d.colIndices[k])
    THEN Ok([k \in DOMAIN d.colIndices |->
                d.values[d.rowIndices[i + 1] + 1][d.colIndices[k] + 1]])
    ELSE Panics

NumRows(d) == Len(d.rowIndices)

NumCols(d) == Len(d.colIndices)

ColIndex(d) == valuesForIndices(d.cols, d.colIndices)

RowIndex(d) == valuesForIndices(d.rows, d.rowIndices)

Matrix(d) == d.values

WhereColIndex(h, d, p) ==
    With(indexSubsetWhere(h[d].cols, h[d].colsSpare, h[d].colIndices, p),
         LAMBDA subset :
        IF subset.panic THEN Panicked(h)
        ELSE copyWithColIndices(h, d, subset.v))

WhereRowIndex(h, d, p) ==
    With(indexSubsetWhere(h[d].rows, h[d].rowsSpare, h[d].rowIndices, p),
         LAMBDA subset :
        IF subset.panic THEN Panicked(h)
        ELSE copyWithRowIndices(h, d, subset.v))

RowsWhereCols(h, d, cols, p) ==
    With(valueIndicesInIndex(cols, h[d].colLabelIndex), LAMBDA columnIndices :
        IF \A k \in DOMAIN h[d].rowIndices :
              /\ InRange(h[d].values, h[d].rowIndices[k])
              /\ ~valuesForIndices(h[d].values[h[d].rowIndices[k] + 1],
                                   columnIndices).panic
        THEN copyWithRowIndices(h, d,
                SelectSeq(h[d].rowIndices, LAMBDA r :
                    Holds(p, valuesForIndices(h[d].values[r + 1],
                                              columnIndices).v)))
        ELSE Panicked(h))

ColsWhereRows(h, d, rows, p) ==
    With(valueIndicesInIndex(rows, h[d].rowLabelIndex), LAMBDA rowIndices :
        IF \A k \in DOMAIN h[d].colIndices : \A i \in DOMAIN rowIndices :
              /\ InRange(h[d].values, rowIndices[i])
              /\ InRange(h[d].values[rowIndices[i] + 1], h[d].colIndices[k])
        THEN copyWithColIndices(h, d,
                SelectSeq(h[d].colIndices, LAMBDA c :
                    Holds(p, [i \in DOMAIN rowIndices |->
                                h[d].values[rowIndices[i] + 1][c + 1]])))
        ELSE Panicked(h))

\* the loop of ForEachRow: the rows transformed, unless RowAt panics or an
\* output has not the length of out (the method then returns nil)
RECURSIVE ForEachRowLoop(_, _, _, _, _)
ForEachRowLoop(colView, out, t, i, transformed) ==
    IF i >= NumRows(colView)
    THEN [panic |-> FALSE, nil |-> FALSE, v |-> transformed]
    ELSE With(RowAt(colView, i), LAMBDA row :
        IF row.panic THEN [panic |-> TRUE, nil |-> FALSE, v |-> transformed]
        ELSE IF Len(out) # Len(Apply(t, row.v))
        THEN [panic |-> FALSE, nil |-> TRUE, v |-> transformed]
        ELSE ForEachRowLoop(colView, out, t, i + 1,
                            Append(transformed, Apply(t, row.v))))

\* out has outSpare beyond its length
ForEachRow(h, d, cols, out, outSpare, t) ==
    With(Cols(h, d, cols), LAMBDA colView :
    With(ForEachRowLoop(colView.h[colView.ret], out, t, 0, <<>>), LAMBDA r :
        IF r.panic THEN Panicked(colView.h)
        ELSE IF r.nil THEN Viewed(FALSE, 0, colView.h)
        ELSE Viewed(FALSE, Len(colView.h) + 1,
                Append(colView.h,
                       [colView.h[d] EXCEPT !.colIndices = intRange(Len(out)),
                                            !.cols = out,
                                            !.colsSpare = outSpare,
                                            !.values = r.v]))))

\* the loop of ForEachCol, filling column i of transformed
RECURSIVE ForEachColLoop(_, _, _, _, _)
ForEachColLoop(rowView, out, t, i, transformed) ==
    IF i >= NumCols(rowView)
    THEN [panic |-> FALSE, nil |-> FALSE, v |-> transformed]
    ELSE With(ColAt(rowView, i), LAMBDA col :
        IF col.panic THEN [panic |-> TRUE, nil |-> FALSE, v |-> transformed]
        ELSE IF Len(out) # Len(Apply(t, col.v))
        THEN [panic |-> FALSE, nil |-> TRUE, v |-> transformed]
        ELSE ForEachColLoop(rowView, out, t, i + 1,
                [j \in DOMAIN transformed |->
                    [transformed[j] EXCEPT ![i + 1] = Apply(t, col.v)[j]]]))

\* out has outSpare beyond its length
ForEachCol(h, d, rows, out, outSpare, t) ==
    With(Rows(h, d, rows), LAMBDA rowView :
    With(ForEachColLoop(rowView.h[rowView.ret], out, t, 0,
            [j \in DOMAIN out |->
                [i \in 1..NumCols(rowView.h[rowView.ret]) |-> NilV]]),
         LAMBDA r :
        IF r.panic THEN Panicked(rowView.h)
        ELSE IF r.nil THEN Viewed(FALSE, 0, rowView.h)
        ELSE Viewed(FALSE, Len(rowView.h) + 1,
                Append(rowView.h,
                       [rowView.h[d] EXCEPT !.rowIndices = intRange(Len(out)),
                                            !.rows = out,
                                            !.rowsSpare = outSpare,
                                            !.values = r.v]))))

(***************************************************************************)
(* The state machine of the views: NewDataFrame with labels and a matrix   *)
(* drawn from small sets, then view methods called on the newest view.     *)
(***************************************************************************)
LabelValues == {IntV(1), StrV(StrA)}

\* label lists, with repetitions
LabelLists == UNION {[1..n -> LabelValues] : n \in 0..MaxDim}

\* a nil or a given label list
LabelInputs == {None} \cup {Some(l) : l \in LabelLists}

\* what the backing array of a label slice holds beyond its length: the
\* nil Values that make leaves there
SpareValues == {NilV}

SpareLists == UNION {[1..n -> SpareValues] : n \in 0..MaxSpare}

\* the output labels given to ForEachRow and ForEachCol, which do not ask
\* them to be unique
OutLists == UNION {[1..n -> {StrV(StrB)}] : n \in 0..MaxDim}

\* the matrices: each row of its own length, the value told by its place
MatrixInputs ==
    UNION {{[i \in 1..n |-> [j \in 1..len[i] |-> IntV(MaxDim * (i - 1) + j - 1)]] :
                len \in [1..n -> 0..MaxDim]} : n \in 0..MaxDim}

Predicates == {"all", "none", "odd"}

Transforms == {"id", "first", "count"}

InitDataFrame ==
    /\ columns = <<>>
    /\ types = <<>>
    /\ bt = <<>>
    /\ crashed = FALSE
    /\ heap = <<>>
    /\ trees = <<>>
    /\ nf = None
    /\ calls = 0
    /\ dfs = <<>>
    /\ last = [op |-> "start", ret |-> 0, err |-> "nil"]

\* the label slices given to NewDataFrame are full
CallNewDataFrame(rows, cols, values) ==
    /\ last.op = "start"
    /\ \E r \in {NewDataFrame(rows, <<>>, cols, <<>>, values)} :
        /\ dfs' = r.ret
        /\ last' = [op |-> "NewDataFrame", args |-> <<rows, cols, values>>,
                    ret |-> Len(r.ret), err |-> r.err]
    /\ UNCHANGED <<columns, types, bt, crashed, heap, trees, nf, calls>>

\* the views held once a method has returned: those held before and the
\* one returned; the views a method made for its own use are dropped
Held(r) ==
    IF r.ret > Len(dfs) THEN Append(SubSeq(r.h, 1, Len(dfs)), r.h[r.ret])
    ELSE SubSeq(r.h, 1, Len(dfs))

\* a method called on the newest view returns
ViewReturns(op, r) ==
    /\ dfs' = Held(r)
    /\ crashed' = r.panic
    /\ last' = [op |-> op, recv |-> Len(dfs),
                ret |-> IF r.ret > Len(dfs) THEN Len(dfs) + 1 ELSE r.ret,
                err |-> "nil"]
    /\ UNCHANGED <<columns, types, bt, heap, trees, nf, calls>>

\* a method that takes labels is called while one more view may be derived
\* after it; the last view held is derived by WhereColIndex or WhereRowIndex
Callable == ~crashed /\ Len(dfs) >= 1 /\ Len(dfs) < MaxViews - 1

Filterable == ~crashed /\ Len(dfs) >= 1 /\ Len(dfs) < MaxViews

CallCols(v) ==
    Callable /\ \E r \in {Cols(dfs, Len(dfs), v)} : ViewReturns("Cols", r)

CallRows(v) ==
    Callable /\ \E r \in {Rows(dfs, Len(dfs), v)} : ViewReturns("Rows", r)

CallWhereColIndex(p) ==
    Filterable /\ \E r \in {WhereColIndex(dfs, Len(dfs), p)} :
        ViewReturns("WhereColIndex", r)

CallWhereRowIndex(p) ==
    Filterable /\ \E r \in {WhereRowIndex(dfs, Len(dfs), p)} :
        ViewReturns("WhereRowIndex", r)

CallRowsWhereCols(cols, p) ==
    Callable /\ \E r \in {RowsWhereCols(dfs, Len(dfs), cols, p)} :
        ViewReturns("RowsWhereCols", r)

CallColsWhereRows(rows, p) ==
    Callable /\ \E r \in {ColsWhereRows(dfs, Len(dfs), rows, p)} :
        ViewReturns("ColsWhereRows", r)

CallForEachRow(cols, out, outSpare, t) ==
    /\ Callable
    /\ \E r \in {ForEachRow(dfs, Len(dfs), cols, out, outSpare, t)} :
        ViewReturns("ForEachRow", r)

CallForEachCol(rows, out, outSpare, t) ==
    /\ Callable
    /\ \E r \in {ForEachCol(dfs, Len(dfs), rows, out, outSpare, t)} :
        ViewReturns("ForEachCol", r)

NextDataFrame ==
    \/ \E rows, cols \in LabelInputs : \E values \in MatrixInputs :
        CallNewDataFrame(rows, cols, values)
    \/ \E v \in LabelLists : CallCols(v)
    \/ \E v \in LabelLists : CallRows(v)
    \/ \E p \in Predicates : CallWhereColIndex(p)
    \/ \E p \in Predicates : CallWhereRowIndex(p)
    \/ \E cols \in LabelLists : \E p \in Predicates : CallRowsWhereCols(cols, p)
    \/ \E rows \in LabelLists : \E p \in Predicates : CallColsWhereRows(rows, p)
    \/ \E cols \in LabelLists : \E out \in OutLists :
        \E outSpare \in SpareLists : \E t \in Transforms :
            CallForEachRow(cols, out, outSpare, t)
    \/ \E rows \in LabelLists : \E out \in OutLists :
        \E outSpare \in SpareLists : \E t \in Transforms :
            CallForEachCol(rows, out, outSpare, t)

SpecDataFrame == InitDataFrame /\ [][NextDataFrame]_vars

(***************************************************************************)
(* C21.  NewDataFrame returns an error when the row labels contain a       *)
(* duplicate, when the column labels contain a duplicate, when the number  *)
(* of row labels differs from the number of value rows, or when a value    *)
(* row's length differs from the number of column labels; otherwise it     *)
(* returns a view whose RowIndex and ColIndex are the labels given, or     *)
(* 0..n-1 for a nil label list, and whose NumRows and NumCols are their    *)
(* lengths.                                                                *)
(***************************************************************************)
HasDuplicate(labels) ==
    \E i, j \in DOMAIN labels : i < j /\ labels[i] = labels[j]

\* the labels a nil list stands for: 0..n-1
LabelsOr(opt, n) == IF opt = None THEN [i \in 1..n |-> IntV(i - 1)] ELSE opt[1]

\* the number of columns of the matrix: that of its first row
Width(values) == IF values = <<>> THEN 0 ELSE Len(values[1])

Malformed(rows, cols, values) ==
    \/ HasDuplicate(Slice(rows))
    \/ HasDuplicate(Slice(cols))
    \/ rows # None /\ Len(rows[1]) # Len(values)
    \/ \E i \in DOMAIN values :
        Len(values[i]) # Len(LabelsOr(cols, Width(values)))

NewDataFrameChecks ==
    last.op = "NewDataFrame" =>
        IF Malformed(last.args[1], last.args[2], last.args[3])
        THEN last.err # "nil" /\ dfs = <<>>
        ELSE /\ last.err = "nil" /\ Len(dfs) = 1
             /\ RowIndex(dfs[1]) = Ok(LabelsOr(last.args[1], Len(last.args[3])))
             /\ ColIndex(dfs[1]) = Ok(LabelsOr(last.args[2], Width(last.args[3])))
             /\ NumRows(dfs[1]) = Len(RowIndex(dfs[1]).v)
             /\ NumCols(dfs[1]) = Len(ColIndex(dfs[1]).v)

\* NewDataFrame has refused column labels that hold a duplicate, the row
\* labels and the matrix being well formed
NewDataFrameChecksWitness ==
    /\ last.op = "NewDataFrame"
    /\ last.err = "col labels are not unique"
    /\ last.args[1] # None
    /\ Len(last.args[3]) = 2

(***************************************************************************)
(* C22.  The view operations (Cols, Rows, WhereColIndex, WhereRowIndex,    *)
(* RowsWhereCols, ColsWhereRows, ForEachRow, ForEachCol) do not modify     *)
(* their receiver: its RowIndex, its ColIndex and its value matrix are     *)
(* after the call what they were before, as are those of every other view  *)
(* held.                                                                   *)
(***************************************************************************)
ReceiverKept ==
    [][\A d \in DOMAIN dfs :
          /\ d \in DOMAIN dfs'
          /\ RowIndex(dfs'[d]) = RowIndex(dfs[d])
          /\ ColIndex(dfs'[d]) = ColIndex(dfs[d])
          /\ Matrix(dfs'[d]) = Matrix(dfs[d])
      ]_vars

\* ForEachRow on a view that Rows had narrowed has returned a view with
\* another matrix and other column labels than its receiver's
ReceiverKeptWitness ==
    /\ last.op = "ForEachRow" /\ ~crashed
    /\ last.recv = 2 /\ last.ret = 3
    /\ NumRows(dfs[2]) < NumRows(dfs[1])
    /\ Matrix(dfs[3]) # Matrix(dfs[2])
    /\ dfs[3].cols # dfs[2].cols

(***************************************************************************)
(* C30.  DataFrame index validity: in every view reachable from a          *)
(* successful NewDataFrame by Rows, Cols, WhereRowIndex, WhereColIndex,    *)
(* RowsWhereCols, ColsWhereRows, ForEachRow and ForEachCol, every element  *)
(* of rowIndices is a valid index into values and rows and every element   *)
(* of colIndices a valid index into each value row and cols, so that       *)
(* RowAt(i), ColAt(j), RowIndex and ColIndex are defined for all           *)
(* 0 <= i < NumRows and 0 <= j < NumCols.                                  *)
(***************************************************************************)
ValidIndices(d) ==
    /\ \A k \in DOMAIN d.rowIndices :
        InRange(d.values, d.rowIndices[k]) /\ InRange(d.rows, d.rowIndices[k])
    /\ \A k \in DOMAIN d.colIndices :
        /\ InRange(d.cols, d.colIndices[k])
        /\ \A r \in DOMAIN d.values : InRange(d.values[r], d.colIndices[k])

Defined(d) ==
    /\ \A i \in 0..(NumRows(d) - 1) : ~RowAt(d, i).panic
    /\ \A j \in 0..(NumCols(d) - 1) : ~ColAt(d, j).panic
    /\ ~RowIndex(d).panic
    /\ ~ColIndex(d).panic

IndexValidity ==
    \A d \in DOMAIN dfs : ValidIndices(dfs[d]) /\ Defined(dfs[d])

(***************************************************************************)
(* C23.  Frame refines a finite map from key to row: for a Frame whose     *)
(* ColumnIndexer has at least one column and rows whose keys are of one    *)
(* kind in each column, Put, Get, Pop, GetRange and PopRange return what   *)
(* the same call returns on a reference map keyed by the values of the     *)
(* indexed columns and leave the entries the reference map then has, and   *)
(* the Frame never holds two entries with equal keys.                      *)
(***************************************************************************)
KindsOf(cols, row) == [i \in 1..Len(cols) |-> row[cols[i]].kind]

\* the rows have a key, of the kinds of the keys stored and of each other
Consistent(cols, s, rows) ==
    /\ \A r \in rows : HasKey(cols, r)
    /\ \A r1 \in rows : \A r2 \in rows \cup {s[i].data : i \in DOMAIN s} :
        KindsOf(cols, r1) = KindsOf(cols, r2)

\* the reference map: key values -> row
RefMap(cols, s) ==
    [k \in {KeyValues(cols, s[i].data) : i \in DOMAIN s} |->
        s[CHOOSE i \in DOMAIN s : KeyValues(cols, s[i].data) = k].data]

RefLookup(M, k) == IF k \in DOMAIN M THEN Some(M[k]) ELSE None

RefPut(M, k, data) == [x \in DOMAIN M \cup {k} |-> IF x = k THEN data ELSE M[x]]

RefRemove(M, keys) == [x \in DOMAIN M \ keys |-> M[x]]

\* the keys of M in [ge, lt), a bound being None or Some(key values)
RefSelect(M, ge, lt) ==
    {k \in DOMAIN M : /\ ge # None => ~KeyLess(k, ge[1])
                      /\ lt # None => KeyLess(k, lt[1])}

\* the rows of the keys K of M in ascending key order
RefAscending(M, K) ==
    LET q == CHOOSE o \in [1..Cardinality(K) -> K] :
                \A i, j \in 1..Cardinality(K) : i < j => KeyLess(o[i], o[j])
    IN  [i \in 1..Cardinality(K) |-> M[q[i]]]

BoundKey(cols, b) == IF b = None THEN None ELSE Some(KeyValues(cols, b[1]))

BoundRows(ge, lt) == {b[1] : b \in {ge, lt} \ {None}}

RefinesOnKey(M, data) ==
    LET k == KeyValues(columns, data)
        put == Put(columns, types, bt, data)
        get == Get(columns, types, bt, data)
        pop == Pop(columns, types, bt, data)
    IN  /\ Completed(put) /\ put.ret = RefLookup(M, k)
        /\ RefMap(columns, put.bt) = RefPut(M, k, data)
        /\ Len(put.bt) = Cardinality(DOMAIN RefPut(M, k, data))
        /\ Completed(get) /\ get.ret = RefLookup(M, k) /\ get.bt = bt
        /\ Completed(pop) /\ pop.ret = RefLookup(M, k)
        /\ RefMap(columns, pop.bt) = RefRemove(M, {k})
        /\ Len(pop.bt) = Cardinality(DOMAIN RefRemove(M, {k}))

RefinesOnRange(M, ge, lt) ==
    LET K == RefSelect(M, BoundKey(columns, ge), BoundKey(columns, lt))
        get == GetRange(columns, types, bt, ge, lt)
        pop == PopRange(columns, types, bt, ge, lt)
    IN  /\ Completed(get) /\ get.ret = RefAscending(M, K) /\ get.bt = bt
        /\ Completed(pop) /\ pop.ret = RefAscending(M, K)
        /\ RefMap(columns, pop.bt) = RefRemove(M, K)
        /\ Len(pop.bt) = Cardinality(DOMAIN RefRemove(M, K))

RefinesMap ==
    (Len(columns) >= 1 /\ ~crashed) =>
        /\ \A i \in DOMAIN bt : HasKey(columns, bt[i].data)
        /\ \A i, j \in DOMAIN bt :
            i < j => KeyValues(columns, bt[i].data) # KeyValues(columns, bt[j].data)
        /\ \A data \in RowInputs(columns) :
            Consistent(columns, bt, {data}) =>
                RefinesOnKey(RefMap(columns, bt), data)
        /\ \A ge, lt \in BoundInputs(columns) :
            Consistent(columns, bt, BoundRows(ge, lt)) =>
                RefinesOnRange(RefMap(columns, bt), ge, lt)

\* PopRange with both bounds has returned two rows of a frame keyed by two
\* columns and left one
RefinesMapWitness ==
    /\ Len(columns) = 2 /\ ~crashed
    /\ last.op = "PopRange" /\ last.err = "nil" /\ Len(last.ret) = 2
    /\ Len(bt) = 1

(***************************************************************************)
(* C24.  The stored key matches the indexer: in every Frame built by       *)
(* NewFrame and Put, Pop, PopRange and every Frame returned by             *)
(* WithIndexer, Joined or GroupBy, the key of each stored entry is equal   *)
(* (neither is less than the other) to the key the Frame's own indexer     *)
(* computes from the entry's row data; in a join result it is also equal   *)
(* to the key the left Frame's indexer gives the left row and the right    *)
(* row merged into the entry.                                              *)
(***************************************************************************)
KeyEqual(a, b) ==
    /\ ~Less(a, b).fatal /\ ~Less(a, b).lt
    /\ ~Less(b, a).fatal /\ ~Less(b, a).lt

\* the frames held: f, frame and the frame returned
FramesHeld == {Source(1), Source(2)} \cup (IF nf = None THEN {} ELSE {nf[1]})

\* the columns of the ColumnIndexer a frame's indexer rests on
BaseColumns(indexer) ==
    IF indexer.kind = "column" THEN indexer.columns
    ELSE indexer.RowIndexer.columns

\* the key a frame's indexer gives a row is the key of the entry
IndexedAs(fr, entry, data) ==
    /\ IndexOf(fr.indexer, heap, data).err = "nil"
    /\ KeyEqual(entry.index, IndexOf(fr.indexer, heap, data).index)

\* the rows of a source whose values are those a joined row has on that side
MergedInto(row, side) ==
    {r \in Range(RowsOf(side)) :
        \A col \in DOMAIN r :
            /\ col \in DOMAIN row /\ row[col].kind = "JoinResult"
            /\ r[col] = (IF side = 1 THEN row[col].Left ELSE row[col].Right)}

KeyMatchesIn(fr) ==
    \A i \in DOMAIN trees[fr.bt] :
        /\ IndexedAs(fr, trees[fr.bt][i], heap[trees[fr.bt][i].data])
        /\ fr.indexer.kind = "join" =>
            \A side \in {1, 2} :
                \A r \in MergedInto(heap[trees[fr.bt][i].data], side) :
                    IndexedAs(Source(1), trees[fr.bt][i], r)

StoredKeyMatches == ~crashed => \A fr \in FramesHeld : KeyMatchesIn(fr)

\* the same for the frames whose indexer has at least one column
StoredKeyMatchesKeyed ==
    ~crashed =>
        \A fr \in FramesHeld :
            Len(BaseColumns(fr.indexer)) >= 1 => KeyMatchesIn(fr)

(***************************************************************************)
(* C25.  Zero-column indexer: every row maps to the one empty key, so the  *)
(* Frame holds at most one entry: a second Put replaces the first row and  *)
(* returns its data, Get with any probe returns the stored row, and Pop    *)
(* removes it.                                                             *)
(***************************************************************************)
ZeroColumn ==
    (columns = <<>> /\ ~crashed) =>
        /\ Len(bt) <= 1
        /\ Len(bt) = 1 =>
            /\ \A data \in RowInputs(columns) :
                /\ Completed(Put(columns, types, bt, data))
                /\ Put(columns, types, bt, data).ret = Some(bt[1].data)
                /\ RowsData(Put(columns, types, bt, data).bt) = <<data>>
            /\ \A probe \in RowInputs(columns) :
                /\ Completed(Get(columns, types, bt, probe))
                /\ Get(columns, types, bt, probe).ret = Some(bt[1].data)
                /\ Completed(Pop(columns, types, bt, probe))
                /\ Pop(columns, types, bt, probe).ret = Some(bt[1].data)
                /\ Pop(columns, types, bt, probe).bt = <<>>

(***************************************************************************)
(* C26.  Read and delete operations are atomic on error: when indexing     *)
(* the probe of Get or Pop, or a bound of GetRange or PopRange, fails, the *)
(* operation returns that error and no rows, and the Frame holds the       *)
(* entries it held (PopRange removes nothing when it returns an error).    *)
(***************************************************************************)
\* the errors the indexer returns for the bounds given
BoundErrors(ge, lt) ==
    {Index(columns, types, b[1]).err : b \in {ge, lt} \ {None}} \ {"nil"}

AtomicOnError ==
    /\ \A probe \in RowInputs(columns) :
        Index(columns, types, probe).err # "nil" =>
            /\ ~Get(columns, types, bt, probe).fatal
            /\ Get(columns, types, bt, probe).err = Index(columns, types, probe).err
            /\ Get(columns, types, bt, probe).ret = None
            /\ Get(columns, types, bt, probe).bt = bt
            /\ ~Pop(columns, types, bt, probe).fatal
            /\ Pop(columns, types, bt, probe).err = Index(columns, types, probe).err
            /\ Pop(columns, types, bt, probe).ret = None
            /\ Pop(columns, types, bt, probe).bt = bt
    /\ \A ge, lt \in BoundInputs(columns) :
        BoundErrors(ge, lt) # {} =>
            /\ ~GetRange(columns, types, bt, ge, lt).fatal
            /\ GetRange(columns, types, bt, ge, lt).err \in BoundErrors(ge, lt)
            /\ GetRange(columns, types, bt, ge, lt).ret = <<>>
            /\ GetRange(columns, types, bt, ge, lt).bt = bt
            /\ ~PopRange(columns, types, bt, ge, lt).fatal
            /\ PopRange(columns, types, bt, ge, lt).err \in BoundErrors(ge, lt)
            /\ PopRange(columns, types, bt, ge, lt).ret = <<>>
            /\ PopRange(columns, types, bt, ge, lt).bt = bt

\* a Pop whose probe the indexer rejects has returned, the frame holding
\* two entries
AtomicOnErrorWitness ==
    /\ last.op = "Pop" /\ last.err # "nil" /\ ~crashed
    /\ Len(bt) = 2

(***************************************************************************)
(* C27.  Re-index collision is last-write-wins: when two or more rows of   *)
(* f receive the same key from newIndexer, f.WithIndexer(newIndexer)       *)
(* returns, without error, a Frame holding exactly one row for that key,   *)
(* the colliding row that comes last in f's ascending key order, and all   *)
(* the rows that do not collide.                                           *)
(***************************************************************************)
\* the row at position i of f, ascending
SourceRow(i) == heap[trees[1][i].data]

\* every row of f has a key under cols, of one kind in each column, and
\* two rows have the same
Collides(cols) ==
    /\ \A i \in DOMAIN trees[1] : HasKey(cols, SourceRow(i))
    /\ OneKind(cols)
    /\ \E i, j \in DOMAIN trees[1] :
        i < j /\ KeyValues(cols, SourceRow(i)) = KeyValues(cols, SourceRow(j))

\* the positions of the rows of f that no later row of f has the key of
LastOfKey(cols) ==
    {i \in DOMAIN trees[1] :
        \A j \in DOMAIN trees[1] :
            j > i => KeyValues(cols, SourceRow(j)) # KeyValues(cols, SourceRow(i))}

LastWinsAs(cols) ==
    LET r == WithIndexer(Source(1), NewColumnIndexer(cols), heap, trees)
        got == FrameGetAll(r.ret[1], r.trees)
    IN  /\ ~r.fatal /\ r.err = "nil" /\ r.ret # None
        /\ Len(got) = Cardinality(LastOfKey(cols))
        /\ Range(got) = {trees[1][i].data : i \in LastOfKey(cols)}

LastWriteWins ==
    (nf = None /\ ~crashed /\ trees[2] = <<>>) =>
        \A cols \in NewIndexerColumns : Collides(cols) => LastWinsAs(cols)

\* the same for a new indexer of at least one column
LastWriteWinsKeyed ==
    (nf = None /\ ~crashed /\ trees[2] = <<>>) =>
        \A cols \in NewIndexerColumns :
            (Len(cols) >= 1 /\ Collides(cols)) => LastWinsAs(cols)

(***************************************************************************)
(* Joined over an indexer supplied by the caller.  row.Indexer is an       *)
(* interface; f is built on an indexer that rejects a row holding both     *)
(* "i2" and "data" and keys the others by "i1", frame on a ColumnIndexer   *)
(* of "data".  A left row with "i2" and a right row of the same key with   *)
(* "data" are each accepted, their merge is not.                           *)
(***************************************************************************)
JoinSource(side) ==
    IF side = 1
    THEN [indexer |-> ExclusiveIndexer(NewColumnIndexer(<<"i1">>)), bt |-> 1]
    ELSE [indexer |-> NewColumnIndexer(<<"data">>), bt |-> 2]

\* the rows put into f and frame: the column its indexer keys by, with or
\* without the others
JoinRows(side) ==
    UNION {{r \in [S -> {IntV(0), IntV(1), StrV(StrX), StrV(StrY)}] :
                /\ "i1" \in S => r["i1"] \in {IntV(0), IntV(1)}
                /\ "i2" \in S => r["i2"] = IntV(0)
                /\ "data" \in S => r["data"] \in {StrV(StrX), StrV(StrY)}} :
           S \in {T \in SUBSET {"i1", "i2", "data"} :
                    (IF side = 1 THEN "i1" ELSE "data") \in T}}

InitJoin ==
    /\ columns = <<"i1">>
    /\ types = <<>>
    /\ bt = <<>>
    /\ crashed = FALSE
    /\ last = [op |-> "NewFrame", ret |-> None, err |-> "nil"]
    /\ heap = <<>>
    /\ trees = << <<>>, <<>> >>
    /\ nf = None
    /\ calls = 0
    /\ dfs = <<>>

\* f.Put(data) or frame.Put(data) with a new map, adding an entry; f is
\* filled before frame
PutJoinSource(side, data) ==
    /\ ~crashed /\ nf = None /\ last.op # "Joined"
    /\ side = 1 => trees[2] = <<>>
    /\ \E r \in {FramePut(JoinSource(side), Append(heap, data), trees,
                          Len(heap) + 1)} :
        /\ ~r.fatal /\ r.err = "nil" /\ r.ret = None
        /\ Len(r.trees[side]) <= MaxSourceRows
        /\ Done("Put", r)
    /\ UNCHANGED <<nf, calls>>

\* nf, err := f.Joined(frame)
CallJoinedSources ==
    /\ ~crashed /\ nf = None /\ last.op # "Joined"
    /\ \E r \in {Joined(JoinSource(1), JoinSource(2), heap, trees)} :
        /\ Done("Joined", r)
        /\ nf' = r.ret
        /\ UNCHANGED calls

NextJoin ==
    \/ \E side \in {1, 2} : \E data \in JoinRows(side) : PutJoinSource(side, data)
    \/ CallJoinedSources

SpecJoin == InitJoin /\ [][NextJoin]_vars

(***************************************************************************)
(* C28.  Join error propagation: Joined returns a non-nil error whenever a *)
(* Get or a Put on the result Frame fails, in the loop over the left rows  *)
(* and in the loop over the right rows alike; it never returns a Frame     *)
(* with a nil error after the Put of a merged right row has failed.        *)
(* A failed Put is told on return: the row it was given is an entry the    *)
(* result's indexer rejects (the map was changed in place) or is not in    *)
(* the result.                                                             *)
(***************************************************************************)
\* the indexer of the result rejects a right row: fr.Get(row) fails
GetFails ==
    \E i \in DOMAIN trees[2] :
        IndexOf(JoinResultIndexer(JoinSource(1).indexer), heap,
                heap[trees[2][i].data]).err # "nil"

\* every entry of the result is one its indexer accepts, and every right
\* row is merged into one
PutsDone ==
    /\ \A j \in DOMAIN trees[nf[1].bt] :
        IndexOf(nf[1].indexer, heap, heap[trees[nf[1].bt][j].data]).err = "nil"
    /\ \A i \in DOMAIN trees[2] : \E j \in DOMAIN trees[nf[1].bt] :
        \A col \in DOMAIN heap[trees[2][i].data] :
            /\ col \in DOMAIN heap[trees[nf[1].bt][j].data]
            /\ heap[trees[nf[1].bt][j].data][col].Right = heap[trees[2][i].data][col]

\* a failed Get is reported
JoinGetErrors ==
    (last.op = "Joined" /\ ~crashed /\ GetFails) => (last.err # "nil" /\ nf = None)

JoinErrors ==
    (last.op = "Joined" /\ ~crashed) =>
        /\ GetFails => (last.err # "nil" /\ nf = None)
        /\ last.err = "nil" => (nf # None /\ PutsDone)

(***************************************************************************)
(* C29.  The structural join error is unreachable: for two Frames built    *)
(* through NewFrame, Put, Pop and PopRange, Joined never returns the       *)
(* "column is not a JoinResult" error, because every column of every row   *)
(* of the result Frame, which the loop over the right rows fetches from,   *)
(* holds a JoinResult.                                                     *)
(***************************************************************************)
NoStructuralError ==
    (last.op = "Joined" /\ ~crashed) =>
        /\ last.err # "notjoinresult"
        /\ \A j \in DOMAIN trees[Len(trees)] :
            \A col \in DOMAIN heap[trees[Len(trees)][j].data] :
                heap[trees[Len(trees)][j].data][col].kind = "JoinResult"

\* Joined has fetched the row of a left row for a right row of the same
\* key and completed it: a column has both its Left and its Right
NoStructuralErrorWitness ==
    /\ Returned("Joined") /\ Len(columns) >= 1
    /\ \E j \in DOMAIN trees[nf[1].bt] :
        \E col \in DOMAIN heap[trees[nf[1].bt][j].data] :
            /\ heap[trees[nf[1].bt][j].data][col].kind = "JoinResult"
            /\ heap[trees[nf[1].bt][j].data][col].Left # NilV
            /\ heap[trees[nf[1].bt][j].data][col].Right # NilV

====
